---- MODULE Spec2Model ----
(***************************************************************************)
(* A model of xpec.py: hardware detection (board, CPU, RAM, GPU, disk)     *)
(* through per-OS provider chains, and the summary helpers of the share    *)
(* card.                                                                   *)
(*                                                                         *)
(* Text is a sequence of one-character strings ("8 GB" is                  *)
(* <<"8"," ","G","B">>), so that strip, upper, substring tests and the     *)
(* regular expressions of the source are computed character by character.  *)
(* Values read from a provider (a WMI property, a registry value) are      *)
(* either text, or the token None, or the token Missing (reading it        *)
(* raises).  Numbers read from a provider are Py values: PyInt(n), PyNone, *)
(* PyBad (the string 'abc') or PyDecimal(t) (the string of t / 10).        *)
(***************************************************************************)
EXTENDS Integers, Sequences, FiniteSets, TLC

VARIABLES host, pc, system_info, cpu_info, ram_info, gpu_info, disk_info,
          GPU_DEBUG, calls, out, args, result

vars == <<host, pc, system_info, cpu_info, ram_info, gpu_info, disk_info,
          GPU_DEBUG, calls, out, args, result>>

(***************************************************************************)
(* Bounds of the model.                                                    *)
(***************************************************************************)
\* fractional digits kept when a decimal number is read from text
FracDigits == 2
\* longest GPU / RAM-module list fed to the summary helpers
MaxList == 3
\* the byte counts given to _fmt_gb_from_bytes go up to MaxSixteenths / 16 GiB
MaxSixteenths == 20
\* most words of a manufacturer text given to _short_vendor
MaxWords == 2
\* most lines that follow the first marker in the output of dmidecode
MaxLines == 4
\* most invocations of get_gpu_info in one process
MaxCalls == 2
\* most tokens of a text given to _parse_gb
MaxTokens == 4
\* most digits of a whole number in a text given to _parse_gb
MaxDigits == 4
\* longest enumeration a provider answers with when a detection function is
\* called on its own
MaxItems == 2

(***************************************************************************)
(* Text helpers (Python str methods used by the source).                   *)
(***************************************************************************)
None == <<"None">>
Missing == <<"Missing">>

\* the letters of the model's alphabet, ASCII and Latin-1 without "ÿ" (its
\* upper-case letter lies outside Latin-1), each lower-case letter at the
\* index of its upper-case letter
LowerLetters == <<"a","b","c","d","e","f","g","h","i","j","k","l","m",
                  "n","o","p","q","r","s","t","u","v","w","x","y","z",
                  "à","á","â","ã","ä","å","æ","ç","è","é","ê","ë","ì","í","î",
                  "ï","ð","ñ","ò","ó","ô","õ","ö","ø","ù","ú","û","ü","ý","þ">>
UpperLetters == <<"A","B","C","D","E","F","G","H","I","J","K","L","M",
                  "N","O","P","Q","R","S","T","U","V","W","X","Y","Z",
                  "À","Á","Â","Ã","Ä","Å","Æ","Ç","È","É","Ê","Ë","Ì","Í","Î",
                  "Ï","Ð","Ñ","Ò","Ó","Ô","Õ","Ö","Ø","Ù","Ú","Û","Ü","Ý","Þ">>
DigitChars == <<"0","1","2","3","4","5","6","7","8","9">>

IsDigit(c) == \E i \in 1..10 : DigitChars[i] = c
DigitVal(c) == (CHOOSE i \in 1..10 : DigitChars[i] = c) - 1
\* str.isspace() and the \s of re, for the characters of the alphabet: tab,
\* line feed, vertical tab, form feed, carriage return, the separators
\* 0x1c-0x1f, space, next line (0x85) and the no-break space (0xa0)
IsSpace(c) ==
    c \in {" ", "\t", "\n", "\r", "\f", "", "", "", "", "", "", " "}

\* c.upper(): the sharp s becomes the two letters "SS", the micro sign the
\* Greek capital mu
UpperChar(c) ==
    IF \E i \in DOMAIN LowerLetters : LowerLetters[i] = c
    THEN UpperLetters[CHOOSE i \in DOMAIN LowerLetters : LowerLetters[i] = c]
    ELSE IF c = "ß" THEN "SS"
    ELSE IF c \in {"µ", "μ"} THEN "Μ"
    ELSE c

\* c.lower()
LowerChar(c) ==
    IF \E i \in DOMAIN UpperLetters : UpperLetters[i] = c
    THEN LowerLetters[CHOOSE i \in DOMAIN UpperLetters : UpperLetters[i] = c]
    ELSE IF c = "Μ" THEN "μ"
    ELSE c

\* str.upper(): one character at a time, "ß" giving two
RECURSIVE upper(_)
upper(s) ==
    IF s = <<>> THEN <<>>
    ELSE (IF Head(s) = "ß" THEN <<"S","S">> ELSE <<UpperChar(Head(s))>>) \o upper(Tail(s))

\* str.lower()
lower(s) == [i \in 1..Len(s) |-> LowerChar(s[i])]

\* str.strip()
strip(s) ==
    LET keep == {i \in 1..Len(s) : ~IsSpace(s[i])}
    IN  IF keep = {} THEN <<>>
        ELSE SubSeq(s, CHOOSE i \in keep : \A j \in keep : i <= j,
                       CHOOSE i \in keep : \A j \in keep : i >= j)

\* sub in s
Contains(sub, s) ==
    \E i \in 1..(Len(s) - Len(sub) + 1) : SubSeq(s, i, i + Len(sub) - 1) = sub

\* s.startswith(p)
startswith(s, p) == Len(p) <= Len(s) /\ SubSeq(s, 1, Len(p)) = p

\* x or "" for a provider value that may be None
OrEmpty(x) == IF x = None THEN <<>> ELSE x

\* x or "N/A"
NA == <<"N","/","A">>
OrNA(x) == IF x = None \/ x = <<>> THEN NA ELSE x

RECURSIVE Pow10(_)
Pow10(k) == IF k = 0 THEN 1 ELSE 10 * Pow10(k - 1)

\* the index of the last character of the run of digits that starts at i
DigitRunEnd(s, i) ==
    CHOOSE j \in i..Len(s) :
        /\ \A k \in i..j : IsDigit(s[k])
        /\ (j = Len(s) \/ ~IsDigit(s[j + 1]))

\* the value of the digits s[i..j]
RECURSIVE DigitsValue(_, _, _)
DigitsValue(s, i, j) ==
    IF j < i THEN 0 ELSE DigitsValue(s, i, j - 1) * 10 + DigitVal(s[j])

\* str(n) for an integer n >= 0
RECURSIVE NatToText(_)
NatToText(n) ==
    IF n < 10 THEN <<DigitChars[n + 1]>>
    ELSE NatToText(n \div 10) \o <<DigitChars[(n % 10) + 1]>>

\* str(n)
IntToText(n) == IF n < 0 THEN <<"-">> \o NatToText(0 - n) ELSE NatToText(n)

(***************************************************************************)
(* Py values: numbers as a provider hands them over.                       *)
(***************************************************************************)
PyNone == [k |-> "none", v |-> 0]
\* the string 'abc': int() and float() raise on it
PyBad == [k |-> "bad", v |-> 0]
\* the string of the decimal t / 10, such as '3600.5': int() raises on it,
\* float() does not
PyDecimal(t) == [k |-> "dec", v |-> t]
PyInt(n) == [k |-> "int", v |-> n]
\* the attribute does not exist on the object
PyAbsent == [k |-> "absent", v |-> 0]
\* obj.name raises AttributeError
AttrRaises(x) == x.k = "absent"
\* getattr(obj, name, default)
GetAttr(x, default) == IF x.k = "absent" THEN default ELSE x
\* int(x) raises
IntRaises(x) == x.k # "int"
\* truthiness of x
Truthy(x) == x.k \in {"bad", "dec"} \/ (x.k = "int" /\ x.v # 0)
\* x is a string
IsStr(x) == x.k \in {"bad", "dec"}

(***************************************************************************)
(* Floats.  A non-negative binary64 value below 2^24 and not below 2^-19   *)
(* (or zero) is kept exactly, as four limbs <<i, f1, f2, f3>> of 24 bits:  *)
(* i + f1 / 2^24 + f2 / 2^48 + f3 / 2^72.  Every operation computes the    *)
(* exact result and rounds it to 53 significant bits, ties to even, as the *)
(* hardware does.                                                          *)
(***************************************************************************)
Limb == 2^24

\* the number of bits of n >= 0
RECURSIVE BitLen(_)
BitLen(n) == IF n = 0 THEN 0 ELSE 1 + BitLen(n \div 2)

\* the number of bits of the 96-bit number x
TopBits(x) ==
    IF x[1] > 0 THEN 72 + BitLen(x[1])
    ELSE IF x[2] > 0 THEN 48 + BitLen(x[2])
    ELSE IF x[3] > 0 THEN 24 + BitLen(x[3])
    ELSE BitLen(x[4])

\* limbs that may have grown beyond 24 bits, carried upwards
Carried(x) ==
    LET c4 == x[4] \div Limb
        c3 == (x[3] + c4) \div Limb
        c2 == (x[2] + c3) \div Limb
    IN  <<x[1] + c2, (x[2] + c3) % Limb, (x[3] + c4) % Limb, x[4] % Limb>>

\* x with its drop lowest bits rounded away, ties to even; sticky tells that
\* the exact value has non-zero bits below the last limb
RoundedAt(x, drop, sticky) ==
    LET w     == drop \div 24
        d     == drop % 24
        c     == 4 - w
        lowc  == x[c] % (2^d)
        below == sticky \/ (w = 1 /\ x[4] > 0)
        gt    == IF d > 0 THEN lowc > 2^(d - 1) \/ (lowc = 2^(d - 1) /\ below)
                 ELSE x[4] > 2^23 \/ (x[4] = 2^23 /\ sticky)
        eq    == IF d > 0 THEN lowc = 2^(d - 1) /\ ~below
                 ELSE x[4] = 2^23 /\ ~sticky
        odd   == (x[c] \div (2^d)) % 2 = 1
        kept  == [k \in 1..4 |-> IF k < c THEN x[k] ELSE IF k = c THEN x[c] - lowc ELSE 0]
    IN  IF gt \/ (eq /\ odd)
        THEN Carried([kept EXCEPT ![c] = @ + 2^d])
        ELSE kept

Round53(x, sticky) ==
    IF TopBits(x) <= 53 THEN x ELSE RoundedAt(x, TopBits(x) - 53, sticky)

\* one limb of the long division by d: r is the remainder carried in
DivLimb(r, limb, d) ==
    LET hi == r * 4096 + (limb \div 4096)
        lo == (hi % d) * 4096 + (limb % 4096)
    IN  [q |-> (hi \div d) * 4096 + (lo \div d), r |-> lo % d]

\* x / d for an integer 0 < d <= 10000, correctly rounded
DivD(x, d) ==
    LET a1 == DivLimb(x[1] % d, x[2], d)
        a2 == DivLimb(a1.r, x[3], d)
        a3 == DivLimb(a2.r, x[4], d)
    IN  Round53(<<x[1] \div d, a1.q, a2.q, a3.q>>, a3.r # 0)

\* float(n) for an integer 0 <= n < 2^24
FloatOf(n) == <<n, 0, 0, 0>>

\* float(text) for the decimal n / d
FloatOfDecimal(n, d) == DivD(FloatOf(n), d)

\* x + y
AddD(x, y) == Round53(Carried(<<x[1] + y[1], x[2] + y[2], x[3] + y[3], x[4] + y[4]>>), FALSE)

\* round(x * 10^digits) to the nearest integer, ties to even, digits <= 2
ScaledRound(x, digits) ==
    LET y == Carried(<<x[1] * Pow10(digits), x[2] * Pow10(digits),
                       x[3] * Pow10(digits), x[4] * Pow10(digits)>>)
    IN  IF y[2] > 2^23 \/ (y[2] = 2^23 /\ (y[3] > 0 \/ y[4] > 0)) THEN y[1] + 1
        ELSE IF y[2] = 2^23 /\ y[1] % 2 = 1 THEN y[1] + 1
        ELSE y[1]

\* n as exactly w digits
RECURSIVE Padded(_, _)
Padded(n, w) == IF w = 0 THEN <<>> ELSE Padded(n \div 10, w - 1) \o <<DigitChars[(n % 10) + 1]>>

\* f"{x:.<digits>f}"
FmtFixed(x, digits) ==
    LET t == ScaledRound(x, digits)
    IN  IF digits = 0 THEN NatToText(t)
        ELSE NatToText(t \div Pow10(digits)) \o <<".">> \o Padded(t % Pow10(digits), digits)

(***************************************************************************)
(* _parse_gb: re.search(r"([0-9]+(?:\.[0-9]+)?)\s*GB", text, re.I).        *)
(* The result is the number scaled by GBScale (1.5 is 150 when FracDigits  *)
(* is 2).                                                                  *)
(***************************************************************************)
GBScale == Pow10(FracDigits)

\* \s*GB matches at position i of s
GBTailAt(s, i) ==
    \E j \in i..(Len(s) - 1) :
        /\ \A k \in i..(j - 1) : IsSpace(s[k])
        /\ s[j] \in {"G", "g"}
        /\ s[j + 1] \in {"B", "b"}

\* the fraction "\.[0-9]+" is present right after position d
HasFraction(s, d) == d + 2 <= Len(s) /\ s[d + 1] = "." /\ IsDigit(s[d + 2])

\* the whole pattern matches with the number starting at position i
GBMatchAt(s, i) ==
    /\ IsDigit(s[i])
    /\ LET d == DigitRunEnd(s, i)
       IN  \/ HasFraction(s, d) /\ GBTailAt(s, DigitRunEnd(s, d + 2) + 1)
           \/ GBTailAt(s, d + 1)

\* float(m.group(1)) for the match starting at i
RECURSIVE FractionValue(_, _, _, _)
FractionValue(s, i, j, scale) ==
    IF j < i \/ scale = 1 THEN 0
    ELSE DigitVal(s[i]) * (scale \div 10) + FractionValue(s, i + 1, j, scale \div 10)

GBValueAt(s, i) ==
    LET d == DigitRunEnd(s, i)
    IN  IF HasFraction(s, d) /\ GBTailAt(s, DigitRunEnd(s, d + 2) + 1)
        THEN DigitsValue(s, i, d) * GBScale
             + FractionValue(s, d + 2, DigitRunEnd(s, d + 2), GBScale)
        ELSE DigitsValue(s, i, d) * GBScale

\* a variant of _parse_gb that takes the last match instead of the first
_parse_gb_LastMatch(text) ==
    IF text = None \/ text = <<>> THEN 0
    ELSE LET starts == {i \in 1..Len(text) : GBMatchAt(text, i)}
         IN  IF starts = {} THEN 0
             ELSE GBValueAt(text, CHOOSE i \in starts : \A j \in starts : j <= i)

_parse_gb(text) ==
    IF text = None \/ text = <<>> THEN 0
    ELSE LET starts == {i \in 1..Len(text) : GBMatchAt(text, i)}
         IN  IF starts = {} THEN 0
             ELSE GBValueAt(text, CHOOSE i \in starts : \A j \in starts : i <= j)

(***************************************************************************)
(* _fmt_gb_from_bytes: f"{n / 1024**3:.1f} GB", negatives clamped to 0.    *)
(***************************************************************************)
\* a variant of TenthsOfGiB that cuts the value off instead of rounding it
TenthsOfGiB_Floor(n) == (n \div (2^27)) + (n \div (2^29)) + ((4 * (n % (2^27)) + (n % (2^29))) \div (2^29))

\* n * 10 / 2^30 rounded half-to-even, for 0 <= n < 2^31; n * 10 is taken as
\* 8n + 2n so that no intermediate value leaves the machine integers
TenthsOfGiB(n) ==
    LET whole == (n \div (2^27)) + (n \div (2^29))
        num   == 4 * (n % (2^27)) + (n % (2^29))
        fl    == whole + (num \div (2^29))
        rem   == num % (2^29)
    IN  IF rem > 2^28 THEN fl + 1
        ELSE IF rem < 2^28 THEN fl
        ELSE IF fl % 2 = 0 THEN fl ELSE fl + 1

\* f"{x:.1f} GB" for x = t / 10, t >= 0
FmtTenths(t) == NatToText(t \div 10) \o <<".">> \o NatToText(t % 10) \o <<" ","G","B">>

_fmt_gb_from_bytes(b) ==
    IF IntRaises(b) THEN NA
    ELSE LET n  == IF b.v < 0 THEN 0 ELSE b.v
             t  == TenthsOfGiB(n)
         IN  FmtTenths(t)

(***************************************************************************)
(* _short_vendor                                                           *)
(***************************************************************************)

\* a variant of _short_vendor that tries the ASUS rule before the MSI rule
_short_vendor_AsusFirst(name) ==
    LET s == strip(OrEmpty(name))
        u == upper(s)
    IN  IF Contains(<<"A","S","U","S","T","E","K">>, u) \/ Contains(<<"A","S","U","S">>, u)
        THEN <<"A","S","U","S">>
        ELSE IF \/ Contains(<<"M","I","C","R","O","-","S","T","A","R">>, u)
              \/ startswith(u, <<"M","S","I">>)
              \/ startswith(u, <<"M","S","-">>)
        THEN <<"M","S","I">>
        ELSE IF Contains(<<"G","I","G","A","B","Y","T","E">>, u) THEN <<"G","i","g","a","b","y","t","e">>
        ELSE IF Contains(<<"A","S","R","O","C","K">>, u) THEN <<"A","S","R","o","c","k">>
        ELSE IF Contains(<<"L","E","N","O","V","O">>, u) THEN <<"L","e","n","o","v","o">>
        ELSE IF \/ Contains(<<"H","E","W","L","E","T","T","-","P","A","C","K","A","R","D">>, u)
                \/ startswith(u, <<"H","P">>)
        THEN <<"H","P">>
        ELSE IF Contains(<<"D","E","L","L">>, u) THEN <<"D","e","l","l">>
        ELSE OrNA(s)

_short_vendor(name) ==
    LET s == strip(OrEmpty(name))
        u == upper(s)
    IN  IF \/ Contains(<<"M","I","C","R","O","-","S","T","A","R">>, u)
              \/ startswith(u, <<"M","S","I">>)
              \/ startswith(u, <<"M","S","-">>)
        THEN <<"M","S","I">>
        ELSE IF Contains(<<"A","S","U","S","T","E","K">>, u) \/ Contains(<<"A","S","U","S">>, u)
        THEN <<"A","S","U","S">>
        ELSE IF Contains(<<"G","I","G","A","B","Y","T","E">>, u) THEN <<"G","i","g","a","b","y","t","e">>
        ELSE IF Contains(<<"A","S","R","O","C","K">>, u) THEN <<"A","S","R","o","c","k">>
        ELSE IF Contains(<<"L","E","N","O","V","O">>, u) THEN <<"L","e","n","o","v","o">>
        ELSE IF \/ Contains(<<"H","E","W","L","E","T","T","-","P","A","C","K","A","R","D">>, u)
                \/ startswith(u, <<"H","P">>)
        THEN <<"H","P">>
        ELSE IF Contains(<<"D","E","L","L">>, u) THEN <<"D","e","l","l">>
        ELSE OrNA(s)

(***************************************************************************)
(* The debug switches: _is_debug, _is_debug_gpu.                           *)
(***************************************************************************)
\* a or b, for two environment values
EnvOr(a, b) == IF a # None /\ a # <<>> THEN a ELSE b

OnWords == {<<"1">>, <<"t","r","u","e">>, <<"y","e","s">>, <<"o","n">>}

_is_debug(h) ==
    LET v == EnvOr(h.env.XPEC_DEBUG_MOBO, h.env.XPEC_DEBUG)
    IN  v # None /\ lower(v) \in OnWords

_is_debug_gpu(h) ==
    LET v == EnvOr(h.env.XPEC_DEBUG_GPU, h.env.XPEC_DEBUG)
    IN  v # None /\ lower(v) \in OnWords

(***************************************************************************)
(* get_system_info.  A detection function is an operator of the host that  *)
(* gives [raised, ret]: raised is TRUE when an exception leaves the        *)
(* function, and ret is then the empty dictionary.                         *)
(***************************************************************************)
EmptyDict == [x \in {} |-> <<>>]
FileNotFound == <<"FileNotFoundError">>
PermissionDenied == <<"PermissionError">>
FileErrors == {FileNotFound, PermissionDenied}

bad_tokens ==
    { <<"T","O"," ","B","E"," ","F","I","L","L","E","D"," ","B","Y"," ","O",".","E",".","M",".">>,
      <<"S","Y","S","T","E","M"," ","P","R","O","D","U","C","T"," ","N","A","M","E">>,
      <<"D","E","F","A","U","L","T"," ","S","T","R","I","N","G">>,
      <<"N","O","T"," ","S","P","E","C","I","F","I","E","D">>,
      <<"U","N","K","N","O","W","N">>,
      NA }

IsHexDigit(c) == IsDigit(c) \/ UpperChar(c) \in {"A","B","C","D","E","F"}

\* r"\s*\(MS-[0-9A-F]+\)$" with re.I matches s from position i to the end
ChipsetSuffixAt(s, i) ==
    \E j \in i..(Len(s) - 5) :
        /\ \A k \in i..(j - 1) : IsSpace(s[k])
        /\ s[j] = "("
        /\ upper(SubSeq(s, j + 1, j + 3)) = <<"M","S","-">>
        /\ \A k \in (j + 4)..(Len(s) - 1) : IsHexDigit(s[k])
        /\ s[Len(s)] = ")"

\* re.sub(r"\s*\(MS-[0-9A-F]+\)$", "", s, flags=re.I)
StripChipset(s) ==
    LET at == {i \in 1..Len(s) : ChipsetSuffixAt(s, i)}
    IN  IF at = {} THEN s
        ELSE SubSeq(s, 1, (CHOOSE i \in at : \A j \in at : i <= j) - 1)

\* f"{a} {b}".strip()
JoinStrip(a, b) == strip(a \o <<" ">> \o b)

\* a registry value that may fail to be read: None when it raises
TryStrip(x) == IF x = Missing THEN None ELSE strip(OrEmpty(x))

NoBoardDebug ==
    [source |-> None, reg_manu |-> None, reg_product |-> None, reg_sysmanu |-> None,
     reg_sysprod |-> None, product_pretty |-> None, vendor_short |-> None]

\* lines 61-91: the registry strategy; mobo_name is None when it sets none
RegistryStrategy(reg) ==
    IF ~reg.open \/ reg.manu = Missing \/ reg.product = Missing
    THEN [mobo_name |-> None, dbg |-> NoBoardDebug]
    ELSE LET manu    == strip(OrEmpty(reg.manu))
             product == strip(OrEmpty(reg.product))
             sysprod == TryStrip(reg.sysprod)
             sysmanu == TryStrip(reg.sysmanu)
             chosen  == IF product # <<>> /\ upper(product) \notin bad_tokens
                        THEN product ELSE OrEmpty(sysprod)
             product_pretty == IF chosen # <<>> THEN StripChipset(chosen) ELSE chosen
             vendor  == _short_vendor(manu)
         IN  IF manu # <<>> \/ product # <<>>
             THEN [mobo_name |-> JoinStrip(vendor, product_pretty),
                   dbg |-> [source |-> <<"r","e","g","i","s","t","r","y">>,
                            reg_manu |-> manu, reg_product |-> product,
                            reg_sysmanu |-> sysmanu, reg_sysprod |-> sysprod,
                            product_pretty |-> product_pretty,
                            vendor_short |-> vendor]]
             ELSE [mobo_name |-> None, dbg |-> NoBoardDebug]

NoWmiDebug == [manufacturer |-> None, product |-> None, version |-> None]

\* lines 93-109: the Win32_BaseBoard strategy
WmiBoardStrategy(bb) ==
    IF ~bb.ok \/ bb.Manufacturer = Missing \/ bb.Product = Missing
    THEN [mobo_name |-> None, source |-> None, dbg |-> NoWmiDebug]
    ELSE LET manu    == strip(OrEmpty(bb.Manufacturer))
             product == strip(OrEmpty(bb.Product))
             version == TryStrip(bb.Version)
         IN  IF manu # <<>> \/ product # <<>>
             THEN [mobo_name |-> JoinStrip(_short_vendor(manu), product),
                   source |-> <<"w","m","i">>,
                   dbg |-> [manufacturer |-> manu, product |-> product, version |-> version]]
             ELSE [mobo_name |-> None, source |-> None,
                   dbg |-> [manufacturer |-> None, product |-> None, version |-> version]]

\* f"{platform.system()} {platform.release()}"
OsText(h) ==
    (IF h.os = "Windows" THEN <<"W","i","n","d","o","w","s">> ELSE <<"L","i","n","u","x">>)
    \o <<" ">> \o h.release

\* lines 92-109: "if not mobo_name" lets None and "" fall through to WMI
ChainBoard(r, bb) ==
    IF r.mobo_name = None \/ r.mobo_name = <<>> THEN WmiBoardStrategy(bb)
    ELSE [mobo_name |-> r.mobo_name, source |-> r.dbg.source, dbg |-> NoWmiDebug]

\* a variant of BoardDict whose debug branch reports the cleaned product as the name
BoardDict_DebugName(h, r, w) ==
    IF _is_debug(h)
    THEN "Motherboard" :> OrNA(r.dbg.product_pretty)
         @@ "Debug: Source" :> OrNA(w.source)
         @@ "Debug: Reg BaseBoardManufacturer" :> OrNA(r.dbg.reg_manu)
         @@ "Debug: Reg BaseBoardProduct" :> OrNA(r.dbg.reg_product)
         @@ "Debug: Reg SystemManufacturer" :> OrNA(r.dbg.reg_sysmanu)
         @@ "Debug: Reg SystemProductName" :> OrNA(r.dbg.reg_sysprod)
         @@ "Debug: Reg Product Pretty" :> OrNA(r.dbg.product_pretty)
         @@ "Debug: Vendor Short" :> OrNA(r.dbg.vendor_short)
         @@ "Debug: WMI BaseBoard.Manufacturer" :> OrNA(w.dbg.manufacturer)
         @@ "Debug: WMI BaseBoard.Product" :> OrNA(w.dbg.product)
         @@ "Debug: WMI BaseBoard.Version" :> OrNA(w.dbg.version)
    ELSE "Motherboard" :> OrNA(w.mobo_name)

\* lines 110-123: r is what the registry strategy left, w what the chain chose
BoardDict(h, r, w) ==
    IF _is_debug(h)
    THEN "Motherboard" :> OrNA(w.mobo_name)
         @@ "Debug: Source" :> OrNA(w.source)
         @@ "Debug: Reg BaseBoardManufacturer" :> OrNA(r.dbg.reg_manu)
         @@ "Debug: Reg BaseBoardProduct" :> OrNA(r.dbg.reg_product)
         @@ "Debug: Reg SystemManufacturer" :> OrNA(r.dbg.reg_sysmanu)
         @@ "Debug: Reg SystemProductName" :> OrNA(r.dbg.reg_sysprod)
         @@ "Debug: Reg Product Pretty" :> OrNA(r.dbg.product_pretty)
         @@ "Debug: Vendor Short" :> OrNA(r.dbg.vendor_short)
         @@ "Debug: WMI BaseBoard.Manufacturer" :> OrNA(w.dbg.manufacturer)
         @@ "Debug: WMI BaseBoard.Product" :> OrNA(w.dbg.product)
         @@ "Debug: WMI BaseBoard.Version" :> OrNA(w.dbg.version)
    ELSE "Motherboard" :> OrNA(w.mobo_name)

WindowsBoard(h, r) == BoardDict(h, r, ChainBoard(r, h.bb))

\* lines 55-123
WindowsSystemInfo(h) == WindowsBoard(h, RegistryStrategy(h.reg))

\* lines 125-136: FileNotFoundError alone is caught
LinuxSystemInfo(h) ==
    LET vendor == h.dmi.vendor
        name   == h.dmi.name
        failed == IF vendor \in FileErrors THEN vendor
                  ELSE IF name \in FileErrors THEN name ELSE None
        manu    == strip(vendor)
        product == strip(name)
    IN  IF failed = PermissionDenied THEN [raised |-> TRUE, ret |-> EmptyDict]
        ELSE IF failed = FileNotFound
        THEN [raised |-> FALSE, ret |-> "Motherboard" :> NA]
        ELSE [raised |-> FALSE,
              ret |-> IF _is_debug(h)
                      THEN "Motherboard" :> JoinStrip(manu, product)
                           @@ "Debug: Linux board_vendor" :> OrNA(manu)
                           @@ "Debug: Linux board_name" :> OrNA(product)
                      ELSE "Motherboard" :> JoinStrip(manu, product)]

\* line 138
AddOs(h, r) ==
    IF r.raised THEN r ELSE [raised |-> FALSE, ret |-> r.ret @@ "OS" :> OsText(h)]

get_system_info(h) ==
    AddOs(h, IF h.os = "Windows"
             THEN [raised |-> FALSE, ret |-> WindowsSystemInfo(h)]
             ELSE LinuxSystemInfo(h))

(***************************************************************************)
(* get_cpu_info.  A dictionary value is text, or None; a number stored in  *)
(* a dictionary is kept as its str() text.                                 *)
(***************************************************************************)
\* the dictionary value of a provider number that was read; an absent
\* attribute has no value, reading it raises (AttrRaises)
PyText(x) ==
    CASE x.k = "int" -> IntToText(x.v)
      [] x.k = "bad" -> <<"a","b","c">>
      [] x.k = "dec" -> NatToText(x.v \div 10) \o <<".">> \o NatToText(x.v % 10)
      [] x.k = "none" -> None

\* float(obj.name) raises: None, 'abc' and an absent attribute
FloatRaises(x) == x.k \in {"none", "bad", "absent"}

\* float(x) for a number x >= 0 or the string of one
FloatValue(x) == IF x.k = "dec" THEN FloatOfDecimal(x.v, 10) ELSE FloatOf(x.v)

\* f"{mhz/1000:.2f} GHz" for the float mhz
FmtGHz(mhz) == FmtFixed(DivD(mhz, 1000), 2) \o <<" ","G","H","z">>

\* lines 144-156: an attribute that is absent raises and ends the block with
\* the keys stored so far; a MaxClockSpeed that cannot be read or converted
\* only leaves "Max Clock" out
WindowsCpuInfo(h) ==
    LET cpu == h.cpu_wmi
        named == "Model" :> cpu.Name
        cored == named @@ "Cores" :> PyText(cpu.NumberOfCores)
        threaded == cored @@ "Threads" :> PyText(cpu.NumberOfLogicalProcessors)
    IN  IF ~cpu.ok THEN EmptyDict
        ELSE IF AttrRaises(cpu.NumberOfCores) THEN named
        ELSE IF AttrRaises(cpu.NumberOfLogicalProcessors) THEN cored
        ELSE IF FloatRaises(cpu.MaxClockSpeed) THEN threaded
        ELSE threaded @@ "Max Clock" :> FmtGHz(FloatValue(cpu.MaxClockSpeed))

\* line 162: line.split(":")[1].strip() for the text that follows the first
\* colon of the line
UpToColon(s) ==
    LET colons == {i \in 1..Len(s) : s[i] = ":"}
    IN  strip(IF colons = {} THEN s
              ELSE SubSeq(s, 1, (CHOOSE i \in colons : \A j \in colons : i <= j) - 1))

\* lines 158-170; fail names the call that raises: "open" (/proc/cpuinfo),
\* "stats" (psutil.cpu_count), or "none"; freq.max / 1000 raises on a string
LinuxCpuInfo(h) ==
    LET cpu == h.cpu_linux
        model == IF cpu.model = None THEN EmptyDict ELSE "Model" :> UpToColon(cpu.model)
        counts == "Cores" :> PyText(cpu.cores) @@ "Threads" :> PyText(cpu.threads)
    IN  IF cpu.fail = "open" THEN EmptyDict
        ELSE IF cpu.fail = "stats" THEN model
        ELSE IF Truthy(cpu.freq_max) /\ ~IsStr(cpu.freq_max)
        THEN model @@ counts @@ "Max Clock" :> FmtGHz(FloatOf(cpu.freq_max.v))
        ELSE model @@ counts

\* d.get(key), with None for a key that is absent
Get(d, key) == IF key \in DOMAIN d THEN d[key] ELSE None

\* d.get(key, default)
GetOr(d, key, default) == IF key \in DOMAIN d THEN d[key] ELSE default

\* d[key] = value
Put(d, key, value) == [x \in (DOMAIN d) \cup {key} |-> IF x = key THEN value ELSE d[x]]

\* lines 172-173
FillModel(h, d) ==
    IF Get(d, "Model") = None \/ Get(d, "Model") = <<>>
    THEN Put(d, "Model", OrNA(h.processor))
    ELSE d

get_cpu_info(h) ==
    [raised |-> FALSE,
     ret |-> FillModel(h, IF h.os = "Windows" THEN WindowsCpuInfo(h) ELSE LinuxCpuInfo(h))]

(***************************************************************************)
(* get_ram_info                                                            *)
(***************************************************************************)
\* f"{n / (1024**3):.1f} GB", no clamp
FmtGiB(n) ==
    IF n < 0 THEN <<"-">> \o FmtTenths(TenthsOfGiB(0 - n)) ELSE FmtTenths(TenthsOfGiB(n))

ram_bad_manu ==
    { <<"U","N","K","N","O","W","N">>, NA, <<"U","N","D","E","F","I","N","E","D">>,
      <<"N","O","T"," ","S","P","E","C","I","F","I","E","D">>,
      <<"I","N","V","A","L","I","D">> }

T_MHz == <<" ","M","H","z">>

\* int(x) if x else None, inside try/except: 0 stands for None
SpeedOf(x) == IF Truthy(x) /\ ~IntRaises(x) THEN x.v ELSE 0

\* lines 185-212: the record of the i-th Win32_PhysicalMemory module
WindowsRamModule(module, i) ==
    LET manu0 == strip(OrEmpty(module.Manufacturer))
        manu  == IF manu0 = <<>> \/ upper(manu0) \in ram_bad_manu THEN NA ELSE manu0
        conf  == SpeedOf(module.ConfiguredClockSpeed)
        speed_val == IF conf # 0 THEN conf ELSE SpeedOf(module.Speed)
        speed_str == IF speed_val # 0 THEN IntToText(speed_val) \o T_MHz ELSE NA
        part  == OrNA(strip(OrEmpty(module.PartNumber)))
        cap_gb == IF IntRaises(module.Capacity) THEN NA ELSE FmtGiB(module.Capacity.v)
    IN  [Module |-> i, Manufacturer |-> manu, Capacity |-> cap_gb, Speed |-> speed_str]
        @@ "Part Number" :> part

\* the modules before the first one whose processing raises
GoodPrefix(items) ==
    LET badAt == {i \in 1..Len(items) : items[i].raises}
    IN  IF badAt = {} THEN items
        ELSE SubSeq(items, 1, (CHOOSE i \in badAt : \A j \in badAt : i <= j) - 1)

\* lines 181-214
WindowsRamModules(h) ==
    IF ~h.ram_wmi.ok THEN <<>>
    ELSE LET ms == GoodPrefix(h.ram_wmi.modules)
         IN  [i \in 1..Len(ms) |-> WindowsRamModule(ms[i], i)]


\* line.split(":")[1].strip(), for a line that holds a colon
FieldOf(line) ==
    LET colons == {i \in 1..Len(line) : line[i] = ":"}
        first  == CHOOSE i \in colons : \A j \in colons : i <= j
        rest   == {i \in colons : i > first}
        stop   == IF rest = {} THEN Len(line) + 1
                  ELSE CHOOSE i \in rest : \A j \in rest : i <= j
    IN  strip(SubSeq(line, first + 1, stop - 1))

\* lines 220-231: the loop over the lines of dmidecode, from line i on;
\* cur is current_module and acc is modules
RECURSIVE DmiLoop(_, _, _, _)
DmiLoop(lines, i, cur, acc) ==
    IF i > Len(lines) THEN acc
    ELSE LET line == lines[i]
         IN  IF /\ Contains(<<"S","i","z","e",":">>, line)
                /\ ~Contains(<<"N","o"," ","M","o","d","u","l","e"," ",
                               "I","n","s","t","a","l","l","e","d">>, line)
             THEN DmiLoop(lines, i + 1, Put(cur, "Capacity", FieldOf(line)), acc)
             ELSE IF Contains(<<"S","p","e","e","d",":">>, line)
             THEN DmiLoop(lines, i + 1, Put(cur, "Speed", FieldOf(line)), acc)
             ELSE IF Contains(<<"P","a","r","t"," ","N","u","m","b","e","r",":">>, line)
             THEN DmiLoop(lines, i + 1, Put(cur, "Part Number", FieldOf(line)), acc)
             ELSE IF Contains(<<"M","a","n","u","f","a","c","t","u","r","e","r",":">>, line)
             THEN DmiLoop(lines, i + 1, Put(cur, "Manufacturer", FieldOf(line)), acc)
             ELSE IF /\ Contains(<<"M","e","m","o","r","y"," ","D","e","v","i","c","e">>, line)
                     /\ DOMAIN cur # {}
             THEN DmiLoop(lines, i + 1, EmptyDict, Append(acc, cur))
             ELSE DmiLoop(lines, i + 1, cur, acc)

\* lines 216-242
LinuxRamModules(h) ==
    IF ~h.dmidecode.ok THEN <<>>
    ELSE LET ms == DmiLoop(h.dmidecode.lines, 1, EmptyDict, <<>>)
         IN  [i \in 1..Len(ms) |->
                 [Module |-> i,
                  Manufacturer |-> GetOr(ms[i], "Manufacturer", NA),
                  Capacity |-> GetOr(ms[i], "Capacity", NA),
                  Speed |-> GetOr(ms[i], "Speed", NA)]
                 @@ "Part Number" :> GetOr(ms[i], "Part Number", NA)]

\* psutil.virtual_memory() is called outside every try
get_ram_info(h) ==
    IF ~h.vmem.ok THEN [raised |-> TRUE, ret |-> EmptyDict]
    ELSE [raised |-> FALSE,
          ret |-> "Total RAM" :> FmtGiB(h.vmem.total)
                  @@ "Modules" :> (IF h.os = "Windows" THEN WindowsRamModules(h)
                                   ELSE LinuxRamModules(h))]

(***************************************************************************)
(* get_gpu_info.  A line of GPU_DEBUG is kept as a record of what it       *)
(* reports: the source, an index, a model, a VRAM text and a note.         *)
(***************************************************************************)
DebugLine(src, idx, model, vram, note) ==
    [src |-> src, idx |-> idx, model |-> model, vram |-> vram, note |-> note]


Gpu(model, vram) == [Model |-> model, VRAM |-> vram]

\* [{"Model": g["Model"], "VRAM": g["VRAM"]} for g in gpus]
PublicGpus(gpus) == [i \in 1..Len(gpus) |-> Gpu(gpus[i].Model, gpus[i].VRAM)]

\* the elements of s at the indices in keep, in order
RECURSIVE Pick(_, _, _)
Pick(s, keep, i) ==
    IF i > Len(s) THEN <<>>
    ELSE (IF i \in keep THEN <<s[i]>> ELSE <<>>) \o Pick(s, keep, i + 1)

\* lines 256-286: the adapters DXGI yields; an adapter whose description
\* cannot be read is skipped, and an unreadable memory size counts as 0
DxgiGpus(h) ==
    IF ~h.comtypes \/ ~h.dxgi.ok THEN <<>>
    ELSE LET ads  == h.dxgi.adapters
             kept == Pick(ads, {i \in 1..Len(ads) : ~ads[i].raises}, 1)
         IN  [i \in 1..Len(kept) |->
                 LET mem_bytes == IF IntRaises(kept[i].mem) THEN 0 ELSE kept[i].mem.v
                 IN  [Model |-> strip(kept[i].Description),
                      VRAM |-> _fmt_gb_from_bytes(PyInt(mem_bytes)),
                      _bytes |-> mem_bytes]]

DxgiDebug(h) ==
    IF ~h.comtypes THEN <<>>
    ELSE IF ~h.dxgi.ok THEN <<DebugLine("DXGI", 0, <<>>, <<>>, "failed to create factory")>>
    ELSE LET ads  == h.dxgi.adapters
             idxs == {i \in 1..Len(ads) : ~ads[i].raises}
             g    == DxgiGpus(h)
             at   == Pick([i \in 1..Len(ads) |-> i], idxs, 1)
         IN  [i \in 1..Len(g) |-> DebugLine("DXGI", at[i] - 1, g[i].Model, g[i].VRAM, "")]

\* lines 289-317: the devices NVML yields before the first call that raises
NvmlGpus(h) ==
    IF ~h.nvml.ok THEN <<>>
    ELSE LET devs == GoodPrefix(h.nvml.devs)
         IN  [i \in 1..Len(devs) |->
                 [Model |-> devs[i].name,
                  VRAM |-> _fmt_gb_from_bytes(PyInt(devs[i].mem)),
                  _bytes |-> devs[i].mem]]

NvmlDebug(h) ==
    IF ~h.nvml.ok THEN <<DebugLine("NVML", 0, <<>>, <<>>, "not available")>>
    ELSE LET g == NvmlGpus(h)
         IN  <<DebugLine("NVML", Len(h.nvml.devs), <<>>, <<>>, "init ok")>>
             \o [i \in 1..Len(g) |-> DebugLine("NVML", i - 1, g[i].Model, g[i].VRAM, "")]
             \o (IF Len(g) < Len(h.nvml.devs)
                 THEN <<DebugLine("NVML", 0, <<>>, <<>>, "not available")>> ELSE <<>>)

\* g["Model"] in name or name in g["Model"]
NameMatch(g, name) == Contains(g.Model, name) \/ Contains(name, g.Model)

\* next((g for g in gpus if ...), None): the index of the first match, or 0
FirstMatch(gpus, name) ==
    LET hits == {i \in 1..Len(gpus) : NameMatch(gpus[i], name)}
    IN  IF hits = {} THEN 0 ELSE CHOOSE i \in hits : \A j \in hits : i <= j

\* "if not vram"
Falsy(v) == v = None \/ v = <<>>

\* lines 329-333: m is the index of the NVML match, or 0
FromNvml(nvml_gpus, m) ==
    IF m # 0 THEN [vram |-> nvml_gpus[m].VRAM, chosen |-> "nvml"]
    ELSE [vram |-> None, chosen |-> "none"]

\* a variant of ThenDxgi in which a DXGI match overrides the NVML value
ThenDxgi_DxgiFirst(c, dxgi_gpus, m) ==
    IF m # 0 THEN [vram |-> dxgi_gpus[m].VRAM, chosen |-> "dxgi"] ELSE c

\* lines 335-339: m is the index of the DXGI match, or 0
ThenDxgi(c, dxgi_gpus, m) ==
    IF Falsy(c.vram) /\ m # 0 THEN [vram |-> dxgi_gpus[m].VRAM, chosen |-> "dxgi"] ELSE c

\* lines 341-347
ThenAdapterRam(c, ram) ==
    IF Falsy(c.vram) /\ Truthy(ram)
    THEN (IF IntRaises(ram) THEN [vram |-> None, chosen |-> c.chosen]
          ELSE [vram |-> _fmt_gb_from_bytes(ram), chosen |-> "wmi"])
    ELSE c

\* lines 327-347: the VRAM of one video controller and the source chosen
MergeVram(gpu, nvml_gpus, dxgi_gpus) ==
    ThenAdapterRam(ThenDxgi(FromNvml(nvml_gpus, FirstMatch(nvml_gpus, gpu.Name)),
                            dxgi_gpus, FirstMatch(dxgi_gpus, gpu.Name)),
                   gpu.AdapterRAM)

\* lines 324-326: the controller is skipped
SkippedController(gpu) ==
    gpu.Name = None \/ gpu.Name = <<>> \/ Contains(<<"M","i","c","r","o","s","o","f","t">>, gpu.Name)

\* the controllers enumerated before one raises, without the skipped ones
ListedControllers(h) ==
    Pick(GoodPrefix(h.gpu_wmi.ctrls),
         {i \in 1..Len(GoodPrefix(h.gpu_wmi.ctrls)) :
             ~SkippedController(GoodPrefix(h.gpu_wmi.ctrls)[i])}, 1)

\* lines 348-357: the record and the debug line of each listed controller
WmiMerged(listed, nvml_gpus, dxgi_gpus) ==
    [i \in 1..Len(listed) |-> MergeVram(listed[i], nvml_gpus, dxgi_gpus)]

\* a variant of ChooseGpus that keeps the controllers listed before WMI raised
ChooseGpus_KeepPartial(failed, wmi_list, nvml_gpus, dxgi_gpus) ==
    IF wmi_list # <<>> THEN wmi_list
    ELSE IF nvml_gpus # <<>> THEN PublicGpus(nvml_gpus)
    ELSE PublicGpus(dxgi_gpus)

\* lines 359-371: failed is TRUE when the WMI enumeration raised
ChooseGpus(failed, wmi_list, nvml_gpus, dxgi_gpus) ==
    IF ~failed /\ wmi_list # <<>> THEN wmi_list
    ELSE IF nvml_gpus # <<>> THEN PublicGpus(nvml_gpus)
    ELSE PublicGpus(dxgi_gpus)

WmiFailed(h) ==
    ~h.gpu_wmi.ok \/ \E i \in 1..Len(h.gpu_wmi.ctrls) : h.gpu_wmi.ctrls[i].raises

WmiResult(h, listed, merged, nvml_gpus, dxgi_gpus) ==
    [gpus  |-> ChooseGpus(WmiFailed(h),
                          [i \in 1..Len(listed) |-> Gpu(listed[i].Name, OrNA(merged[i].vram))],
                          nvml_gpus, dxgi_gpus),
     debug |-> <<DebugLine("Env", 0, <<>>, <<>>, IF h.comtypes THEN "yes" ELSE "no")>>
               \o DxgiDebug(h) \o NvmlDebug(h)
               \o [i \in 1..Len(listed) |->
                      DebugLine("WMI", i - 1, listed[i].Name, OrNA(merged[i].vram),
                                merged[i].chosen)]
               \o (IF WmiFailed(h)
                   THEN <<DebugLine("WMI", 0, <<>>, <<>>, "failed to enumerate")>>
                   ELSE <<>>)]

WmiStage(h, listed, nvml_gpus, dxgi_gpus) ==
    WmiResult(h, listed, WmiMerged(listed, nvml_gpus, dxgi_gpus), nvml_gpus, dxgi_gpus)

\* lines 251-371
WindowsGpuInfo(h) ==
    WmiStage(h, IF h.gpu_wmi.ok THEN ListedControllers(h) ELSE <<>>, NvmlGpus(h), DxgiGpus(h))

\* line.split(":")[2].strip(); None when the line has fewer than two colons
ThirdField(line) ==
    LET colons == {i \in 1..Len(line) : line[i] = ":"}
        ord(k) == CHOOSE i \in colons : Cardinality({j \in colons : j <= i}) = k
    IN  IF Cardinality(colons) < 2 THEN None
        ELSE strip(SubSeq(line, ord(2) + 1,
                          IF Cardinality(colons) = 2 THEN Len(line) ELSE ord(3) - 1))

\* lines 374-381: a line without a third field raises and ends the loop
LinuxGpuInfo(h) ==
    IF ~h.lspci.ok THEN <<>>
    ELSE LET lines == Pick(h.lspci.lines,
                           {i \in 1..Len(h.lspci.lines) : strip(h.lspci.lines[i]) # <<>>}, 1)
             bad   == {i \in 1..Len(lines) : ThirdField(lines[i]) = None}
             n     == IF bad = {} THEN Len(lines)
                      ELSE (CHOOSE i \in bad : \A j \in bad : i <= j) - 1
         IN  [i \in 1..n |-> Gpu(ThirdField(lines[i]), NA)]

\* lines 383-389
FinalDebug(gpus) ==
    IF gpus = <<>> THEN <<DebugLine("Final", 0, <<>>, <<>>, "no GPUs detected")>>
    ELSE [i \in 1..Len(gpus) |-> DebugLine("Final", i - 1, gpus[i].Model, gpus[i].VRAM, "")]

\* lines 383-391
GpuReturn(h, gpus, debug) ==
    [raised |-> FALSE,
     ret    |-> gpus,
     debug  |-> IF _is_debug_gpu(h) THEN debug \o FinalDebug(gpus) ELSE <<>>]

GpuOf(h, w) == GpuReturn(h, w.gpus, w.debug)

\* ret is the list returned; debug is GPU_DEBUG when the function returns
get_gpu_info(h) ==
    IF h.os = "Windows" THEN GpuOf(h, WindowsGpuInfo(h))
    ELSE GpuReturn(h, LinuxGpuInfo(h), <<>>)

(***************************************************************************)
(* get_disk_info                                                           *)
(***************************************************************************)
T_SSD == <<"S","S","D">>
T_HDD == <<"H","D","D">>

Disk(model, size, type) == [Model |-> model, Size |-> size, Type |-> type]

\* the items before the first index in bad
PrefixBefore(items, bad) ==
    IF bad = {} THEN items
    ELSE SubSeq(items, 1, (CHOOSE i \in bad : \A j \in bad : i <= j) - 1)

\* lines 400-405: 0 and None are "no size"
MsftSize(pd) ==
    LET x == GetAttr(pd.Size, PyNone)
    IN  IF Truthy(x) /\ ~IntRaises(x) THEN FmtGiB(x.v) ELSE NA

\* lines 407-425
MsftType(pd) ==
    LET mt == GetAttr(pd.MediaType, PyInt(0))
        sp == GetAttr(pd.SpindleSpeed, PyInt(0))
        byMedia == IF IntRaises(mt) THEN NA
                   ELSE IF mt.v = 3 THEN T_HDD
                   ELSE IF mt.v \in {4, 5} THEN T_SSD
                   ELSE NA
    IN  IF byMedia # NA THEN byMedia
        ELSE IF IntRaises(sp) THEN NA
        ELSE IF sp.v > 0 THEN T_HDD
        ELSE IF sp.v = 0 THEN T_SSD
        ELSE NA

\* line 426
MsftName(pd) ==
    strip(IF pd.FriendlyName # None /\ pd.FriendlyName # <<>> THEN pd.FriendlyName
          ELSE IF pd.Model # None /\ pd.Model # <<>> THEN pd.Model
          ELSE NA)

\* lines 397-430: tier 1, MSFT_PhysicalDisk; disks is what it appended
MsftTier(h) ==
    LET ds     == h.msft.disks
        bad    == {i \in 1..Len(ds) : ds[i].raises}
        seen   == IF h.msft.ok THEN PrefixBefore(ds, bad) ELSE <<>>
    IN  [raised |-> ~h.msft.ok \/ bad # {},
         disks  |-> [i \in 1..Len(seen) |->
                        Disk(MsftName(seen[i]), MsftSize(seen[i]), MsftType(seen[i]))]]

\* lines 440-445
PsSize(it) == IF IntRaises(it.Size) THEN NA ELSE FmtGiB(it.Size.v)

\* lines 446-452
PsType(it) ==
    LET mt == upper(strip(OrEmpty(it.MediaType)))
    IN  IF mt \in {T_SSD, <<"S","C","M">>} THEN T_SSD ELSE IF mt = T_HDD THEN T_HDD ELSE NA

\* lines 432-457: tier 2, PowerShell Get-PhysicalDisk
PsTier(h) ==
    LET its  == h.ps.items
        bad  == {i \in 1..Len(its) : its[i].raises}
        seen == IF h.ps.ok THEN PrefixBefore(its, bad) ELSE <<>>
    IN  [raised |-> ~h.ps.ok \/ bad # {},
         disks  |-> [i \in 1..Len(seen) |->
                        Disk(strip(OrNA(seen[i].FriendlyName)), PsSize(seen[i]), PsType(seen[i]))]]

\* lines 465-474
Win32Type(disk) ==
    LET pnp    == upper(OrEmpty(disk.PNPDeviceID))
        serial == upper(OrEmpty(disk.SerialNumber))
        mdl_u  == upper(strip(OrEmpty(disk.Model)))
    IN  IF \/ Contains(<<"N","V","M","E">>, pnp)
            \/ Contains(<<"N","V","M","E">>, mdl_u)
            \/ Contains(<<"N","V","M","E">>, serial)
        THEN T_SSD
        ELSE IF Contains(T_SSD, mdl_u) THEN T_SSD
        ELSE T_HDD

\* lines 459-477: tier 3, Win32_DiskDrive; a disk whose Size is falsy is left
\* out, one whose Size is absent or cannot be converted ends the tier
Win32Tier(h) ==
    LET ds   == h.win32.disks
        bad  == {i \in 1..Len(ds) :
                    \/ ds[i].raises
                    \/ AttrRaises(ds[i].Size)
                    \/ (Truthy(ds[i].Size) /\ IntRaises(ds[i].Size))}
        seen == IF h.win32.ok THEN PrefixBefore(ds, bad) ELSE <<>>
        kept == Pick(seen, {i \in 1..Len(seen) : Truthy(seen[i].Size)}, 1)
    IN  [raised |-> ~h.win32.ok \/ bad # {},
         disks  |-> [i \in 1..Len(kept) |->
                        Disk(OrNA(strip(OrEmpty(kept[i].Model))), FmtGiB(kept[i].Size.v),
                             Win32Type(kept[i]))]]

\* one entry of the record of tiers attempted
Attempt(tier, r, before) ==
    [tier |-> tier, raised |-> r.raised, yielded |-> Len(r.disks), before |-> before]

\* lines 395-477: disk_info is shared by the three tiers; tier 2 runs in the
\* except clause of tier 1; tier 3 runs unless a tier returned
ChainDisks(t1, t2, t3) ==
    IF ~t1.raised /\ t1.disks # <<>>
    THEN [ret |-> t1.disks, tried |-> <<Attempt("MSFT_PhysicalDisk", t1, 0)>>]
    ELSE IF t1.raised /\ ~t2.raised /\ t1.disks \o t2.disks # <<>>
    THEN [ret |-> t1.disks \o t2.disks,
          tried |-> <<Attempt("MSFT_PhysicalDisk", t1, 0),
                      Attempt("Get-PhysicalDisk", t2, Len(t1.disks))>>]
    ELSE IF t1.raised
    THEN [ret |-> t1.disks \o t2.disks \o t3.disks,
          tried |-> <<Attempt("MSFT_PhysicalDisk", t1, 0),
                      Attempt("Get-PhysicalDisk", t2, Len(t1.disks)),
                      Attempt("Win32_DiskDrive", t3, Len(t1.disks) + Len(t2.disks))>>]
    ELSE [ret |-> t3.disks,
          tried |-> <<Attempt("MSFT_PhysicalDisk", t1, 0),
                      Attempt("Win32_DiskDrive", t3, 0)>>]

WindowsDiskInfo(h) == ChainDisks(MsftTier(h), PsTier(h), Win32Tier(h))

\* line.split(): the maximal runs of non-space characters
Words(line) ==
    LET starts == {i \in 1..Len(line) :
                      ~IsSpace(line[i]) /\ (i = 1 \/ IsSpace(line[i - 1]))}
        endOf(i) == CHOOSE j \in i..Len(line) :
                      /\ \A k \in i..j : ~IsSpace(line[k])
                      /\ (j = Len(line) \/ IsSpace(line[j + 1]))
        at == Pick([i \in 1..Len(line) |-> i], starts, 1)
    IN  [k \in 1..Len(at) |-> SubSeq(line, at[k], endOf(at[k]))]

\* " ".join(parts)
RECURSIVE JoinWords(_)
JoinWords(parts) ==
    IF parts = <<>> THEN <<>>
    ELSE IF Len(parts) = 1 THEN parts[1]
    ELSE parts[1] \o <<" ">> \o JoinWords(Tail(parts))

\* lines 479-491: lsblk, one line per device after the header
LinuxDiskInfo(h) ==
    IF ~h.lsblk.ok \/ h.lsblk.lines = <<>> THEN <<>>
    ELSE LET body == Tail(h.lsblk.lines)
             rows == Pick(body, {i \in 1..Len(body) : Len(Words(body[i])) >= 3}, 1)
         IN  [i \in 1..Len(rows) |->
                 LET parts == Words(rows[i])
                     n == Len(parts)
                 IN  Disk(JoinWords(SubSeq(parts, 2, n - 2)), parts[n - 1],
                          IF parts[n] = <<"0">> THEN T_SSD ELSE T_HDD)]

DiskReturn(r) == [raised |-> FALSE, ret |-> r.ret, tried |-> r.tried]

get_disk_info(h) ==
    IF h.os = "Windows" THEN DiskReturn(WindowsDiskInfo(h))
    ELSE [raised |-> FALSE, ret |-> LinuxDiskInfo(h), tried |-> <<>>]

(***************************************************************************)
(* The summary helpers of the share card.                                  *)
(***************************************************************************)
\* int(sm.group(1)) for re.search(r"(\d+)", sp), or 0 when nothing matches
FirstInt(sp) ==
    LET at == {i \in 1..Len(sp) : IsDigit(sp[i])}
        i0 == CHOOSE i \in at : \A j \in at : i <= j
    IN  IF at = {} THEN 0 ELSE DigitsValue(sp, i0, DigitRunEnd(sp, i0))

\* f"{x:.0f}" for x = v / GBScale, v >= 0: round half to even
Fmt0(v) ==
    LET q == v \div GBScale
        r == v % GBScale
    IN  NatToText(IF 2 * r > GBScale THEN q + 1
                  ELSE IF 2 * r < GBScale THEN q
                  ELSE IF q % 2 = 0 THEN q ELSE q + 1)

\* the values of s, as a set
Range(s) == {s[i] : i \in 1..Len(s)}

\* lines 795-801
RamSizes(modules) == [i \in 1..Len(modules) |-> _parse_gb(GetOr(modules[i], "Capacity", <<>>))]
RamSpeeds(modules) == [i \in 1..Len(modules) |-> FirstInt(GetOr(modules[i], "Speed", <<>>))]

\* a variant of UniqSpeed that wants every module's speed determined
UniqSpeed_AllDetermined(modules) ==
    LET speeds == Range(RamSpeeds(modules))
    IN  IF Cardinality(speeds) = 1 /\ 0 \notin speeds THEN CHOOSE x \in speeds : TRUE ELSE 0

\* lines 802-805: 0 stands for None
UniqSpeed(modules) ==
    LET filtered == Range(RamSpeeds(modules)) \ {0}
    IN  IF Cardinality(filtered) = 1 THEN CHOOSE x \in filtered : TRUE ELSE 0

\* lines 806-809: 0 stands for None
PerSize(modules) ==
    LET sizes == RamSizes(modules)
    IN  IF Len(modules) # 0 /\ (\A i \in 1..Len(sizes) : sizes[i] > 0)
           /\ Cardinality(Range(sizes)) = 1
        THEN sizes[1] ELSE 0

TotalPart(total) == <<"T","o","t","a","l",":"," ">> \o total
SizedPart(count, per_size) ==
    <<"(">> \o NatToText(count) \o <<"x">> \o Fmt0(per_size) \o <<" ","G","B",")">>
CountPart(count) == <<"(">> \o NatToText(count) \o <<" ","m","o","d","u","l","e","s",")">>
SpeedPart(speed) == <<"@"," ">> \o NatToText(speed) \o T_MHz

\* lines 810-817: the list "parts"
PartsOf(total, count, per_size, uniq_speed) ==
    <<TotalPart(total)>>
    \o (IF count = 0 THEN <<>>
        ELSE IF per_size # 0 THEN <<SizedPart(count, per_size)>>
        ELSE <<CountPart(count)>>)
    \o (IF uniq_speed # 0 THEN <<SpeedPart(uniq_speed)>> ELSE <<>>)

ModuleParts(total, modules) ==
    PartsOf(total, Len(modules), PerSize(modules), UniqSpeed(modules))

RamParts(ram) == ModuleParts(GetOr(ram, "Total RAM", NA), GetOr(ram, "Modules", <<>>))

_summarize_ram(ram) == JoinWords(RamParts(ram))

\* the key of max() at line 823
VramKey(g) == _parse_gb(GetOr(g, "VRAM", <<"0"," ","G","B">>))

\* a variant of FirstMax that resolves a tie to the last element
FirstMax_Last(gpus) ==
    LET best == {i \in 1..Len(gpus) :
                    \A j \in 1..Len(gpus) : VramKey(gpus[j]) <= VramKey(gpus[i])}
    IN  gpus[CHOOSE i \in best : \A j \in best : j <= i]

\* max(gpus, key=...): the first element whose key is the largest
FirstMax(gpus) ==
    LET best == {i \in 1..Len(gpus) :
                    \A j \in 1..Len(gpus) : VramKey(gpus[j]) <= VramKey(gpus[i])}
    IN  gpus[CHOOSE i \in best : \A j \in best : i <= j]

_choose_primary_gpu(gpus) ==
    IF gpus = <<>> THEN Gpu(NA, NA) ELSE FirstMax(gpus)

\* f"{x:.1f}" for the float x
Fmt1(x) == FmtFixed(x, 1)

\* lines 828-829: [d for d in disk_info if d.get("Type") == kind]
OfType(disks, kind) ==
    Pick(disks, {i \in 1..Len(disks) : GetOr(disks[i], "Type", None) = kind}, 1)

\* lines 831-833: tot += _parse_gb(it.get("Size", "0 GB")), the text of the
\* number converted by float()
RECURSIVE AddSizes(_, _)
AddSizes(items, tot) ==
    IF items = <<>> THEN tot
    ELSE AddSizes(Tail(items),
                  AddD(tot, FloatOfDecimal(_parse_gb(GetOr(Head(items), "Size", <<"0"," ","G","B">>)),
                                           GBScale)))

\* lines 830-834
total_gb(items) == AddSizes(items, FloatOf(0))

\* lines 837, 839: f"{len(items)}x {kind} ({total_gb(items):.1f} GB)"
KindPart(items, kind) ==
    NatToText(Len(items)) \o <<"x"," ">> \o kind \o <<" ","(">>
    \o Fmt1(total_gb(items)) \o <<" ","G","B",")">>

\* ", ".join(parts)
RECURSIVE JoinComma(_)
JoinComma(parts) ==
    IF parts = <<>> THEN <<>>
    ELSE IF Len(parts) = 1 THEN parts[1]
    ELSE parts[1] \o <<",", " ">> \o JoinComma(Tail(parts))

\* lines 835-840
StorageParts(ssd, hdd) ==
    (IF ssd # <<>> THEN <<KindPart(ssd, T_SSD)>> ELSE <<>>)
    \o (IF hdd # <<>> THEN <<KindPart(hdd, T_HDD)>> ELSE <<>>)

_summarize_storage(disks) ==
    IF disks = <<>> THEN NA
    ELSE JoinComma(StorageParts(OfType(disks, T_SSD), OfType(disks, T_HDD)))

(***************************************************************************)
(* The host: what the operating system and the providers answer during one *)
(* run.  It is drawn in the initial state and never changes.               *)
(***************************************************************************)
X_Asustek == <<"A","S","U","S","T","e","K"," ","I","n","c",".">>
X_MicroStar == <<"M","i","c","r","o","-","S","t","a","r">>
X_RogStrix == <<"R","O","G"," ","S","T","R","I","X"," ","B","5","5","0">>
X_ProB650 == <<"P","R","O"," ","B","6","5","0"," ","(","M","S","-","7","E","4","9",")">>
X_ToBeFilled == <<"T","o"," ","B","e"," ","F","i","l","l","e","d"," ","B","y"," ","O",".","E",".","M",".">>
X_DefaultString == <<"D","e","f","a","u","l","t"," ","s","t","r","i","n","g">>
X_SystemProductName == <<"S","y","s","t","e","m"," ","P","r","o","d","u","c","t"," ","N","a","m","e">>
X_NvidiaRtx == <<"N","V","I","D","I","A"," ","R","T","X"," ","3","0","8","0">>
X_Rtx == <<"R","T","X"," ","3","0","8","0">>
X_IntelUhd == <<"I","n","t","e","l"," ","U","H","D">>
X_MsBasic == <<"M","i","c","r","o","s","o","f","t"," ","B","a","s","i","c">>
X_Kingston == <<"K","i","n","g","s","t","o","n">>
X_PartNo == <<"K","F","4","3","2">>
X_Samsung980 == <<"S","a","m","s","u","n","g"," ","9","8","0">>
X_WdBlue == <<"W","D"," ","B","l","u","e">>
X_IntelI7 == <<"I","n","t","e","l"," ","i","7">>
X_Release == <<"1","0">>
X_Processor == <<"x","8","6","_","6","4">>

GoodReg ==
    [open |-> TRUE, manu |-> X_Asustek, product |-> X_RogStrix,
     sysprod |-> X_SystemProductName, sysmanu |-> X_Asustek]
ClosedReg == [GoodReg EXCEPT !.open = FALSE]
GoodBaseBoard ==
    [ok |-> TRUE, Manufacturer |-> X_MicroStar, Product |-> X_ProB650, Version |-> <<"1">>]
GoodDmi == [vendor |-> X_Asustek, name |-> X_RogStrix]
GoodCpuWmi ==
    [ok |-> TRUE, Name |-> X_IntelI7, NumberOfCores |-> PyInt(8),
     NumberOfLogicalProcessors |-> PyInt(16), MaxClockSpeed |-> PyInt(3600)]
GoodCpuLinux ==
    [fail |-> "none", model |-> X_IntelI7, cores |-> PyInt(8), threads |-> PyInt(16),
     freq_max |-> PyInt(3600)]
GoodRamModule ==
    [raises |-> FALSE, Manufacturer |-> X_Kingston, ConfiguredClockSpeed |-> PyInt(3200),
     Speed |-> PyInt(3600), PartNumber |-> X_PartNo, Capacity |-> PyInt(2^30)]
GoodDmidecode ==
    [ok |-> TRUE,
     lines |-> << <<"M","e","m","o","r","y"," ","D","e","v","i","c","e">>,
                  <<" ">> \o <<"S","i","z","e",":">> \o <<" ","8"," ","G","B">>,
                  <<" ">> \o <<"S","p","e","e","d",":">> \o <<" ","3","2","0","0"," ","M","T","/","s">>,
                  <<"M","e","m","o","r","y"," ","D","e","v","i","c","e">>,
                  <<" ">> \o <<"S","i","z","e",":">> \o <<" ","8"," ","G","B">> >>]
GoodNvmlDev == [raises |-> FALSE, name |-> X_Rtx, mem |-> 3 * (2^29)]
GoodAdapter == [raises |-> FALSE, mem |-> PyInt(2^30), Description |-> X_NvidiaRtx]
GoodController == [raises |-> FALSE, Name |-> X_NvidiaRtx, AdapterRAM |-> PyInt(2^29)]
GoodLspci ==
    [ok |-> TRUE,
     lines |-> << <<"0","1",":","0","0",".","0"," ","V","G","A",":"," ">> \o X_NvidiaRtx, <<>> >>]
GoodMsftDisk ==
    [raises |-> FALSE, Size |-> PyInt(2^30), MediaType |-> PyInt(4),
     SpindleSpeed |-> PyInt(0), FriendlyName |-> X_Samsung980, Model |-> None]
GoodPsItem ==
    [raises |-> FALSE, FriendlyName |-> X_WdBlue, Size |-> PyInt(2^30), MediaType |-> T_HDD]
GoodWin32Disk ==
    [raises |-> FALSE, Size |-> PyInt(2^29), Model |-> X_WdBlue,
     PNPDeviceID |-> <<"S","C","S","I">>, SerialNumber |-> None]
GoodLsblk ==
    [ok |-> TRUE,
     lines |-> << <<"N","A","M","E"," ","M","O","D","E","L"," ","S","I","Z","E"," ","R","O","T","A">>,
                  <<"s","d","a"," ">> \o X_WdBlue \o <<" ","1","G"," ","1">> >>]

DefaultHost ==
    [os |-> "Windows", release |-> X_Release, processor |-> X_Processor,
     env |-> [XPEC_DEBUG_MOBO |-> None, XPEC_DEBUG_GPU |-> None, XPEC_DEBUG |-> None],
     reg |-> GoodReg, bb |-> GoodBaseBoard, dmi |-> GoodDmi,
     cpu_wmi |-> GoodCpuWmi, cpu_linux |-> GoodCpuLinux,
     vmem |-> [ok |-> TRUE, total |-> 2^30],
     ram_wmi |-> [ok |-> TRUE, modules |-> <<GoodRamModule>>],
     dmidecode |-> GoodDmidecode,
     comtypes |-> TRUE,
     dxgi |-> [ok |-> TRUE, adapters |-> <<GoodAdapter>>],
     nvml |-> [ok |-> TRUE, devs |-> <<GoodNvmlDev>>],
     gpu_wmi |-> [ok |-> TRUE, ctrls |-> <<GoodController>>],
     lspci |-> GoodLspci,
     msft |-> [ok |-> TRUE, disks |-> <<GoodMsftDisk>>],
     ps |-> [ok |-> TRUE, items |-> <<GoodPsItem>>],
     win32 |-> [ok |-> TRUE, disks |-> <<GoodWin32Disk>>],
     lsblk |-> GoodLsblk,
     pil |-> TRUE]

\* a processor provider that answers, fails, or fails after the core count:
\* Win32_Processor without NumberOfLogicalProcessors, psutil.cpu_count raising
CpuWmiAnswers ==
    { GoodCpuWmi, [GoodCpuWmi EXCEPT !.ok = FALSE],
      [GoodCpuWmi EXCEPT !.NumberOfLogicalProcessors = PyAbsent] }

CpuLinuxOf(cw) ==
    [GoodCpuLinux EXCEPT !.fail = IF ~cw.ok THEN "open"
                                 ELSE IF AttrRaises(cw.NumberOfLogicalProcessors) THEN "stats"
                                 ELSE "none"]

\* the hosts of a whole run: each provider either answers or fails
MainHosts ==
    { [DefaultHost EXCEPT
          !.os = o, !.dmi = d, !.reg = r,
          !.cpu_wmi = c, !.cpu_linux = CpuLinuxOf(c),
          !.vmem.ok = v,
          !.ram_wmi.ok = m, !.dmidecode.ok = m,
          !.gpu_wmi.ok = g, !.lspci.ok = g,
          !.msft.ok = k, !.lsblk.ok = k,
          !.pil = p] :
        o \in {"Windows", "Linux"},
        d \in {GoodDmi, [GoodDmi EXCEPT !.vendor = FileNotFound],
               [GoodDmi EXCEPT !.name = PermissionDenied]},
        r \in {GoodReg, ClosedReg},
        c \in CpuWmiAnswers, v \in BOOLEAN, m \in BOOLEAN, g \in BOOLEAN, k \in BOOLEAN,
        p \in BOOLEAN }

(***************************************************************************)
(* main: the five detections in order inside one try, then the renderers.  *)
(***************************************************************************)
NoOut == [html |-> FALSE, image |-> FALSE, error |-> FALSE,
          ram_line |-> <<>>, gpu_primary |-> Gpu(<<>>, <<>>), storage_line |-> <<>>]

Unset ==
    /\ system_info = EmptyDict
    /\ cpu_info = EmptyDict
    /\ ram_info = EmptyDict
    /\ gpu_info = <<>>
    /\ disk_info = <<>>
    /\ GPU_DEBUG = <<>>
    /\ calls = <<>>
    /\ out = NoOut
    /\ args = <<>>
    /\ result = <<>>

Init ==
    /\ host \in MainHosts
    /\ pc = "system"
    /\ Unset

\* where main goes after a detection call
Goto(r, next) == pc' = IF r.raised THEN "except" ELSE next

SystemReturns(r, next) ==
    /\ system_info' = r.ret
    /\ Goto(r, next)
    /\ UNCHANGED <<host, cpu_info, ram_info, gpu_info, disk_info, GPU_DEBUG, calls, out, args, result>>

CpuReturns(r, next) ==
    /\ cpu_info' = r.ret
    /\ Goto(r, next)
    /\ UNCHANGED <<host, system_info, ram_info, gpu_info, disk_info, GPU_DEBUG, calls, out, args, result>>

RamReturns(r, next) ==
    /\ ram_info' = r.ret
    /\ Goto(r, next)
    /\ UNCHANGED <<host, system_info, cpu_info, gpu_info, disk_info, GPU_DEBUG, calls, out, args, result>>

\* line 249 and the appends: GPU_DEBUG is rebound by every call
GpuReturns(r, next) ==
    /\ gpu_info' = r.ret
    /\ GPU_DEBUG' = r.debug
    /\ Goto(r, next)
    /\ UNCHANGED <<host, system_info, cpu_info, ram_info, disk_info, calls, out, args, result>>

\* calls keeps the tiers the call attempted
DiskReturns(r, next) ==
    /\ disk_info' = r.ret
    /\ calls' = r.tried
    /\ Goto(r, next)
    /\ UNCHANGED <<host, system_info, cpu_info, ram_info, gpu_info, GPU_DEBUG, out, args, result>>

\* line 936
MainSystem == pc = "system" /\ SystemReturns(get_system_info(host), "cpu")

\* line 937
MainCpu == pc = "cpu" /\ CpuReturns(get_cpu_info(host), "ram")

\* line 938
MainRam == pc = "ram" /\ RamReturns(get_ram_info(host), "gpu")

\* line 939
MainGpu == pc = "gpu" /\ GpuReturns(get_gpu_info(host), "disk")

\* line 940
MainDisk == pc = "disk" /\ DiskReturns(get_disk_info(host), "html")

\* lines 942-948: the snapshot is handed to generate_html_report
MainHtml ==
    /\ pc = "html"
    /\ out' = [out EXCEPT !.html = TRUE]
    /\ pc' = "image"
    /\ UNCHANGED <<host, system_info, cpu_info, ram_info, gpu_info, disk_info, GPU_DEBUG, calls, args, result>>

\* lines 950-958, 843-844, 901-904: generate_share_image, when PIL is there
MainImage ==
    /\ pc = "image"
    /\ out' = IF host.pil
              THEN [out EXCEPT !.image = TRUE,
                               !.ram_line = _summarize_ram(ram_info),
                               !.gpu_primary = _choose_primary_gpu(gpu_info),
                               !.storage_line = _summarize_storage(disk_info)]
              ELSE out
    /\ pc' = "done"
    /\ UNCHANGED <<host, system_info, cpu_info, ram_info, gpu_info, disk_info, GPU_DEBUG, calls, args, result>>

\* lines 960-962: print(f"Error: {e}")
MainExcept ==
    /\ pc = "except"
    /\ out' = [out EXCEPT !.error = TRUE]
    /\ pc' = "done"
    /\ UNCHANGED <<host, system_info, cpu_info, ram_info, gpu_info, disk_info, GPU_DEBUG, calls, args, result>>

Next ==
    \/ MainSystem
    \/ MainCpu
    \/ MainRam
    \/ MainGpu
    \/ MainDisk
    \/ MainHtml
    \/ MainImage
    \/ MainExcept

Spec == Init /\ [][Next]_vars

(***************************************************************************)
(* A detection function called on its own, on a host drawn from the        *)
(* answers its providers can give.  pc goes from "call" to "returned", or  *)
(* to "except" when the exception reaches the caller.                      *)
(***************************************************************************)
SeqsUpTo(S, n) == UNION {[1..k -> S] : k \in 0..n}

\* ---- get_system_info ----
BoardHosts ==
    { [DefaultHost EXCEPT !.reg = r, !.bb = b] :
        r \in { [GoodReg EXCEPT !.manu = m, !.product = p, !.sysprod = sp] :
                  m \in {X_Asustek, <<>>, None, X_ToBeFilled},
                  p \in {X_RogStrix, X_ToBeFilled, X_DefaultString, <<>>, X_ProB650, Missing},
                  sp \in {X_RogStrix, X_SystemProductName, Missing, <<>>, X_ProB650} }
              \cup {ClosedReg},
        b \in { GoodBaseBoard, [GoodBaseBoard EXCEPT !.ok = FALSE],
                [GoodBaseBoard EXCEPT !.Manufacturer = None, !.Product = <<" ">>] } }

InitBoard == host \in BoardHosts /\ pc = "call" /\ Unset

CallGetSystemInfo == pc = "call" /\ SystemReturns(get_system_info(host), "returned")

NextBoard == CallGetSystemInfo

SpecBoard == InitBoard /\ [][NextBoard]_vars

\* ---- get_gpu_info ----
Controllers ==
    { GoodController,
      [raises |-> FALSE, Name |-> X_IntelUhd, AdapterRAM |-> PyInt(2^28)],
      [raises |-> FALSE, Name |-> X_IntelUhd, AdapterRAM |-> PyInt(0)],
      [raises |-> FALSE, Name |-> X_IntelUhd, AdapterRAM |-> PyInt(0 - 2^30)],
      [raises |-> FALSE, Name |-> X_IntelUhd, AdapterRAM |-> PyBad],
      [raises |-> FALSE, Name |-> X_MsBasic, AdapterRAM |-> PyInt(2^28)],
      [raises |-> FALSE, Name |-> None, AdapterRAM |-> PyNone],
      [raises |-> TRUE, Name |-> X_NvidiaRtx, AdapterRAM |-> PyNone] }

OtherNvmlDev == [raises |-> FALSE, name |-> X_NvidiaRtx, mem |-> 2^29]
BadNvmlDev == [raises |-> TRUE, name |-> X_Rtx, mem |-> 0]
NvmlAnswers ==
    { [ok |-> FALSE, devs |-> <<>>], [ok |-> TRUE, devs |-> <<>>],
      [ok |-> TRUE, devs |-> <<GoodNvmlDev>>],
      [ok |-> TRUE, devs |-> <<GoodNvmlDev, OtherNvmlDev>>],
      [ok |-> TRUE, devs |-> <<OtherNvmlDev, GoodNvmlDev>>],
      [ok |-> TRUE, devs |-> <<GoodNvmlDev, BadNvmlDev, OtherNvmlDev>>] }

IntelAdapter == [raises |-> FALSE, mem |-> PyBad, Description |-> <<" ">> \o X_IntelUhd]
RtxAdapter == [raises |-> FALSE, mem |-> PyInt(2^28), Description |-> X_Rtx]
BadAdapter == [raises |-> TRUE, mem |-> PyNone, Description |-> <<>>]
DxgiAnswers ==
    { [ok |-> FALSE, adapters |-> <<>>], [ok |-> TRUE, adapters |-> <<>>],
      [ok |-> TRUE, adapters |-> <<GoodAdapter>>],
      [ok |-> TRUE, adapters |-> <<IntelAdapter, GoodAdapter>>],
      [ok |-> TRUE, adapters |-> <<RtxAdapter, GoodAdapter>>],
      [ok |-> TRUE, adapters |-> <<BadAdapter, GoodAdapter, IntelAdapter>>] }

GpuHosts ==
    { [DefaultHost EXCEPT !.gpu_wmi = w, !.nvml = n, !.dxgi = d] :
        w \in { [ok |-> TRUE, ctrls |-> c] : c \in SeqsUpTo(Controllers, MaxItems) }
              \cup { [ok |-> FALSE, ctrls |-> <<>>] },
        n \in NvmlAnswers,
        d \in DxgiAnswers }

InitGpu == host \in GpuHosts /\ pc = "call" /\ Unset

CallGetGpuInfo == pc = "call" /\ GpuReturns(get_gpu_info(host), "returned")

NextGpu == CallGetGpuInfo

SpecGpu == InitGpu /\ [][NextGpu]_vars

\* ---- get_disk_info ----
MsftDisks ==
    { GoodMsftDisk,
      [raises |-> FALSE, Size |-> PyNone, MediaType |-> PyInt(3), SpindleSpeed |-> PyNone,
       FriendlyName |-> None, Model |-> X_WdBlue],
      [GoodMsftDisk EXCEPT !.raises = TRUE] }
PsItems == { GoodPsItem, [GoodPsItem EXCEPT !.raises = TRUE] }
Win32Disks ==
    { GoodWin32Disk,
      [GoodWin32Disk EXCEPT !.Size = PyBad],
      [GoodWin32Disk EXCEPT !.Size = PyAbsent, !.Model = X_Samsung980] }

DiskHosts ==
    { [DefaultHost EXCEPT !.msft = m, !.ps = p, !.win32 = w] :
        m \in { [ok |-> TRUE, disks |-> x] : x \in SeqsUpTo(MsftDisks, MaxItems) }
              \cup { [ok |-> FALSE, disks |-> <<>>] },
        p \in { [ok |-> TRUE, items |-> x] : x \in SeqsUpTo(PsItems, MaxItems) }
              \cup { [ok |-> FALSE, items |-> <<>>] },
        w \in { [ok |-> TRUE, disks |-> x] : x \in SeqsUpTo(Win32Disks, MaxItems) }
              \cup { [ok |-> FALSE, disks |-> <<>>] } }

InitDisk == host \in DiskHosts /\ pc = "call" /\ Unset

CallGetDiskInfo == pc = "call" /\ DiskReturns(get_disk_info(host), "returned")

NextDisk == CallGetDiskInfo

SpecDisk == InitDisk /\ [][NextDisk]_vars

\* ---- _choose_primary_gpu and _summarize_ram ----
VramTexts ==
    { <<"4"," ","G","B">>, <<"8"," ","G","B">>, <<"8",".","0","G","B">>,
      <<"1",".","5"," ","g","b">>, NA, Missing }

\* the i-th GPU of a list: no "VRAM" key when v is Missing
GpuInput(i, v) ==
    IF v = Missing THEN [Model |-> <<UpperLetters[i]>>]
    ELSE Gpu(<<UpperLetters[i]>>, v)

GpuLists ==
    { [i \in 1..Len(vs) |-> GpuInput(i, vs[i])] : vs \in SeqsUpTo(VramTexts, MaxList) }

CapacityTexts == { <<"8",".","0"," ","G","B">>, <<"1","6",".","0"," ","G","B">>, NA }
SpeedTexts == { <<"3","2","0","0"," ","M","H","z">>, <<"2","4","0","0"," ","M","H","z">>, NA }

RamModuleInputs ==
    { [Manufacturer |-> X_Kingston, Capacity |-> c, Speed |-> sp] @@ "Part Number" :> NA :
        c \in CapacityTexts, sp \in SpeedTexts }

RamInfos ==
    { "Total RAM" :> <<"1","6",".","0"," ","G","B">>
      @@ "Modules" :> [i \in 1..Len(ms) |-> [Module |-> i] @@ ms[i]] :
        ms \in SeqsUpTo(RamModuleInputs, MaxList) }

InitSummary ==
    /\ host = DefaultHost
    /\ system_info = EmptyDict /\ cpu_info = EmptyDict /\ disk_info = <<>>
    /\ GPU_DEBUG = <<>> /\ calls = <<>> /\ out = NoOut
    /\ args = <<>> /\ result = <<>>
    /\ \/ pc = "call_gpu" /\ gpu_info \in GpuLists /\ ram_info = EmptyDict
       \/ pc = "call_ram" /\ ram_info \in RamInfos /\ gpu_info = <<>>

CallChoosePrimaryGpu ==
    /\ pc = "call_gpu"
    /\ out' = [out EXCEPT !.gpu_primary = _choose_primary_gpu(gpu_info)]
    /\ pc' = "returned_gpu"
    /\ UNCHANGED <<host, system_info, cpu_info, ram_info, gpu_info, disk_info, GPU_DEBUG, calls, args, result>>

CallSummarizeRam ==
    /\ pc = "call_ram"
    /\ out' = [out EXCEPT !.ram_line = _summarize_ram(ram_info)]
    /\ pc' = "returned_ram"
    /\ UNCHANGED <<host, system_info, cpu_info, ram_info, gpu_info, disk_info, GPU_DEBUG, calls, args, result>>

NextSummary == CallChoosePrimaryGpu \/ CallSummarizeRam

SpecSummary == InitSummary /\ [][NextSummary]_vars

(***************************************************************************)
(* Properties.                                                             *)
(***************************************************************************)

\* C1: an exception raised while one hardware class is detected does not
\* stop the others: when main is done the report has been rendered, no error
\* was printed, and every class whose detection raises nothing is in the
\* snapshot with the value its detection returns.
C1_ClassFailureIsolated ==
    pc = "done" =>
        /\ out.html
        /\ ~out.error
        /\ cpu_info = get_cpu_info(host).ret
        /\ gpu_info = get_gpu_info(host).ret
        /\ disk_info = get_disk_info(host).ret

\* C2: no detection function lets an exception reach its caller, so main
\* never enters its except clause.
C2_DetectionNeverRaises == pc # "except"

TierResult(tier) ==
    IF tier = "MSFT_PhysicalDisk" THEN MsftTier(host)
    ELSE IF tier = "Get-PhysicalDisk" THEN PsTier(host)
    ELSE Win32Tier(host)

LaterTierSucceeded(tried) ==
    /\ Len(tried) > 1
    /\ \E i \in 1..(Len(tried) - 1) : tried[i].raised
    /\ ~tried[Len(tried)].raised
    /\ tried[Len(tried)].yielded > 0

\* C3: when a disk tier raises and a later tier succeeds, get_disk_info
\* returns exactly the records of the later tier, with nothing left over
\* from the tier that raised.
C3_LaterStrategyResultOnly ==
    (pc = "returned" /\ LaterTierSucceeded(calls)) =>
        disk_info = TierResult(calls[Len(calls)].tier).disks

TierOrder == <<"MSFT_PhysicalDisk", "Get-PhysicalDisk", "Win32_DiskDrive">>

TierAttempted(tried, t) == \E i \in 1..Len(tried) : tried[i].tier = t

TierYieldedNone(tried, t) ==
    \E i \in 1..Len(tried) : tried[i].tier = t /\ tried[i].yielded = 0

\* C4: the Windows disk tiers are an ordered fallback: a tier is attempted
\* whenever the tier before it yielded no disk, and no tier is attempted after
\* an earlier tier has yielded at least one disk.
C4_TiersOrderedFallback ==
    pc = "returned" =>
        /\ TierAttempted(calls, TierOrder[1])
        /\ \A k \in 1..2 :
              TierYieldedNone(calls, TierOrder[k]) => TierAttempted(calls, TierOrder[k + 1])
        /\ \A i, j \in 1..Len(calls) : i < j => calls[i].yielded = 0

HasText(d, k) == k \in DOMAIN d /\ d[k] # None /\ d[k] # <<>>

AllHaveText(items, keys) ==
    \A i \in 1..Len(items) : \A k \in keys : HasText(items[i], k)

\* C5: once the five classes are detected, every optional field is present
\* with a text value ("N/A" when undetermined): the CPU's cores, threads and
\* max clock, each RAM module's capacity, speed, manufacturer and part number,
\* each GPU's VRAM, each disk's size and kind.
C5_OptionalFieldsPresent ==
    pc \in {"html", "image"} =>
        /\ \A k \in {"Cores", "Threads", "Max Clock"} : HasText(cpu_info, k)
        /\ AllHaveText(ram_info["Modules"],
                       {"Capacity", "Speed", "Manufacturer", "Part Number"})
        /\ AllHaveText(gpu_info, {"VRAM"})
        /\ AllHaveText(disk_info, {"Size", "Type"})

\* the registry answers with a manufacturer and a system product, and its
\* baseboard product is empty or a placeholder
PlaceholderProduct(reg) ==
    /\ reg.open /\ reg.manu # Missing /\ reg.product # Missing /\ reg.sysprod # Missing
    /\ strip(OrEmpty(reg.manu)) # <<>>
    /\ strip(OrEmpty(reg.sysprod)) # <<>>
    /\ \/ strip(OrEmpty(reg.product)) = <<>>
       \/ upper(strip(OrEmpty(reg.product))) \in bad_tokens

NoPlaceholderIn(name) == \A b \in bad_tokens : ~Contains(b, upper(name))

\* C6: in the registry strategy, when the baseboard product is empty or a
\* placeholder in any letter case, the board name is the short vendor followed
\* by the system product and contains no placeholder value.
C6_PlaceholderProductReplaced ==
    (pc = "returned" /\ host.os = "Windows" /\ PlaceholderProduct(host.reg)) =>
        /\ system_info["Motherboard"] =
              JoinStrip(_short_vendor(strip(OrEmpty(host.reg.manu))),
                        StripChipset(OrEmpty(TryStrip(host.reg.sysprod))))
        /\ NoPlaceholderIn(system_info["Motherboard"])

Least(S) == CHOOSE i \in S : \A j \in S : i <= j

Matching(gpus, name) == {i \in 1..Len(gpus) : NameMatch(gpus[i], name)}

UsableAdapterRam(ram) == ram.k = "int" /\ ram.v # 0

\* the VRAM the precedence NVML, DXGI, AdapterRAM, "N/A" gives a controller
VramByPrecedence(ctrl, nvml_gpus, dxgi_gpus) ==
    IF Matching(nvml_gpus, ctrl.Name) # {}
    THEN nvml_gpus[Least(Matching(nvml_gpus, ctrl.Name))].VRAM
    ELSE IF Matching(dxgi_gpus, ctrl.Name) # {}
    THEN dxgi_gpus[Least(Matching(dxgi_gpus, ctrl.Name))].VRAM
    ELSE IF UsableAdapterRam(ctrl.AdapterRAM)
    THEN _fmt_gb_from_bytes(ctrl.AdapterRAM)
    ELSE NA

GpusByPrecedence(listed, nvml_gpus, dxgi_gpus) ==
    [i \in 1..Len(listed) |->
        Gpu(listed[i].Name, VramByPrecedence(listed[i], nvml_gpus, dxgi_gpus))]

\* C7: on Windows, when WMI lists the controllers, each one's VRAM is that of
\* the first NVML device matching its name; else that of the first matching
\* DXGI adapter; else its AdapterRAM (an integer other than 0) formatted by
\* _fmt_gb_from_bytes; else "N/A".
C7_VramPrecedence ==
    (pc = "returned" /\ host.os = "Windows" /\ ~WmiFailed(host)
       /\ ListedControllers(host) # <<>>) =>
        gpu_info = GpusByPrecedence(ListedControllers(host), NvmlGpus(host), DxgiGpus(host))

\* a controller matched by NVML and by DXGI with different sizes gets NVML's,
\* next to a controller that falls back to its AdapterRAM
C7_Witness ==
    /\ pc = "returned" /\ ~WmiFailed(host)
    /\ Len(gpu_info) = 2 /\ Len(ListedControllers(host)) = 2
    /\ Matching(NvmlGpus(host), gpu_info[1].Model) # {}
    /\ Matching(DxgiGpus(host), gpu_info[1].Model) # {}
    /\ gpu_info[1].VRAM = NvmlGpus(host)[Least(Matching(NvmlGpus(host), gpu_info[1].Model))].VRAM
    /\ gpu_info[1].VRAM # DxgiGpus(host)[Least(Matching(DxgiGpus(host), gpu_info[1].Model))].VRAM
    /\ Matching(NvmlGpus(host), gpu_info[2].Model) = {}
    /\ Matching(DxgiGpus(host), gpu_info[2].Model) = {}
    /\ gpu_info[2].VRAM # NA

\* C8: on Windows, when the WMI enumeration fails, the GPU list is the NVML
\* list if it is not empty, else the DXGI list (which may be empty), each in
\* the order its provider enumerated it.
C8_WmiFailureFallsBack ==
    (pc = "returned" /\ host.os = "Windows" /\ WmiFailed(host)) =>
        IF NvmlGpus(host) # <<>>
        THEN /\ gpu_info = PublicGpus(NvmlGpus(host))
             /\ \A i \in 1..Len(gpu_info) : gpu_info[i].Model = host.nvml.devs[i].name
        ELSE gpu_info = PublicGpus(DxgiGpus(host))

\* WMI raised after listing a controller; two NVML devices are returned
C8_Witness ==
    /\ pc = "returned" /\ WmiFailed(host) /\ host.gpu_wmi.ok
    /\ ListedControllers(host) # <<>>
    /\ Len(NvmlGpus(host)) = 2
    /\ gpu_info = PublicGpus(NvmlGpus(host))
    /\ gpu_info[1] # gpu_info[2]

\* C9: _choose_primary_gpu returns the first GPU whose _parse_gb(VRAM) is the
\* largest of the list, and {"Model": "N/A", "VRAM": "N/A"} for an empty list.
C9_PrimaryIsFirstMax ==
    pc = "returned_gpu" =>
        IF gpu_info = <<>> THEN out.gpu_primary = Gpu(NA, NA)
        ELSE \E i \in 1..Len(gpu_info) :
                /\ out.gpu_primary = gpu_info[i]
                /\ \A j \in 1..Len(gpu_info) : VramKey(gpu_info[j]) <= VramKey(gpu_info[i])
                /\ \A j \in 1..(i - 1) : VramKey(gpu_info[j]) < VramKey(gpu_info[i])

\* the largest VRAM is shared by the second and the third GPU
C9_Witness ==
    /\ pc = "returned_gpu" /\ Len(gpu_info) = 3
    /\ VramKey(gpu_info[1]) > 0
    /\ VramKey(gpu_info[1]) < VramKey(gpu_info[2])
    /\ VramKey(gpu_info[2]) = VramKey(gpu_info[3])
    /\ out.gpu_primary = gpu_info[2]

AllDetermined(modules) ==
    \A i \in 1..Len(modules) : RamSizes(modules)[i] > 0 /\ RamSpeeds(modules)[i] # 0

EqualCapacities(modules) == Cardinality(Range(RamSizes(modules))) <= 1

\* "Total: T" followed by the generic count when there are modules
GenericLine(total, count) ==
    JoinWords(<<TotalPart(total)>> \o (IF count = 0 THEN <<>> ELSE <<CountPart(count)>>))

\* C10 as stated: unless every module's capacity and speed are determined and
\* all capacities are equal, the summary is the total and the generic module
\* count, with no per-module size and no speed.
C10_DetailOnlyWhenAllDetermined ==
    (pc = "returned_ram"
       /\ ~(AllDetermined(ram_info["Modules"]) /\ EqualCapacities(ram_info["Modules"]))) =>
        out.ram_line = GenericLine(ram_info["Total RAM"], Len(ram_info["Modules"]))

UniformSize(modules) ==
    /\ modules # <<>>
    /\ \A i \in 1..Len(modules) : RamSizes(modules)[i] > 0
    /\ \A i \in 1..Len(modules) : RamSizes(modules)[i] = RamSizes(modules)[1]

\* the determined speeds are all x, and there is one
SharedSpeed(modules, x) ==
    /\ x # 0
    /\ \E i \in 1..Len(modules) : RamSpeeds(modules)[i] = x
    /\ \A i \in 1..Len(modules) : RamSpeeds(modules)[i] \in {0, x}

SizeOrCount(modules) ==
    IF modules = <<>> THEN <<>>
    ELSE IF UniformSize(modules) THEN <<SizedPart(Len(modules), RamSizes(modules)[1])>>
    ELSE <<CountPart(Len(modules))>>

SpeedIfShared(modules) ==
    IF \E x \in Range(RamSpeeds(modules)) : SharedSpeed(modules, x)
    THEN <<SpeedPart(CHOOSE x \in Range(RamSpeeds(modules)) : SharedSpeed(modules, x))>>
    ELSE <<>>

\* C10, amended: the summary is the total; then, when there are modules,
\* "(NxS GB)" if every capacity is determined and all are equal, "(N modules)"
\* otherwise; then "@ X MHz" if the modules whose speed is determined all have
\* the speed X and there is at least one, whatever the capacities are and
\* whether or not other modules have no determined speed.
C10_SizeAndSpeedIndependent ==
    pc = "returned_ram" =>
        out.ram_line = JoinWords(<<TotalPart(ram_info["Total RAM"])>>
                                 \o SizeOrCount(ram_info["Modules"])
                                 \o SpeedIfShared(ram_info["Modules"]))

\* two modules of different capacities, one without a speed: the generic
\* count and the speed of the other
C10_Witness ==
    /\ pc = "returned_ram" /\ Len(ram_info["Modules"]) = 2
    /\ RamSizes(ram_info["Modules"])[1] > 0
    /\ RamSizes(ram_info["Modules"])[2] > RamSizes(ram_info["Modules"])[1]
    /\ RamSpeeds(ram_info["Modules"])[1] = 0
    /\ RamSpeeds(ram_info["Modules"])[2] = 3200
    /\ out.ram_line = JoinWords(<<TotalPart(ram_info["Total RAM"]), CountPart(2), SpeedPart(3200)>>)

(***************************************************************************)
(* _summarize_storage called on its own.                                   *)
(***************************************************************************)
DiskSizeTexts ==
    { <<"5","0","0"," ","G","B">>, <<"1","0","0","0"," ","G","B">>,
      <<"0",".","5"," ","G","B">>, <<"0",".","3","5"," ","G","B">>, NA }

DiskLists ==
    { [i \in 1..Len(ds) |-> Disk(<<UpperLetters[i]>>, ds[i][1], ds[i][2])] :
        ds \in SeqsUpTo(DiskSizeTexts \X {T_SSD, T_HDD, NA}, MaxList) }

InitStorage ==
    /\ host = DefaultHost
    /\ system_info = EmptyDict /\ cpu_info = EmptyDict /\ ram_info = EmptyDict
    /\ gpu_info = <<>> /\ GPU_DEBUG = <<>> /\ calls = <<>> /\ out = NoOut
    /\ args = <<>> /\ result = <<>>
    /\ pc = "call_storage"
    /\ disk_info \in DiskLists

CallSummarizeStorage ==
    /\ pc = "call_storage"
    /\ out' = [out EXCEPT !.storage_line = _summarize_storage(disk_info)]
    /\ pc' = "returned_storage"
    /\ UNCHANGED <<host, system_info, cpu_info, ram_info, gpu_info, disk_info, GPU_DEBUG, calls, args, result>>

NextStorage == CallSummarizeStorage

SpecStorage == InitStorage /\ [][NextStorage]_vars

KindRendered(disks, kind, line) ==
    IF OfType(disks, kind) # <<>>
    THEN Contains(KindPart(OfType(disks, kind), kind), line)
    ELSE ~Contains(<<"x"," ">> \o kind \o <<" ">>, line)

\* C11: _summarize_storage partitions the disks by kind and renders, for
\* each kind with at least one disk (SSD, HDD or the undetermined "N/A"),
\* "<count>x <KIND> (<sum> GB)" with the sum of _parse_gb over the sizes to
\* one decimal; a kind without disks is not rendered; the empty list gives
\* "N/A".
C11_EveryKindRendered ==
    pc = "returned_storage" =>
        IF disk_info = <<>> THEN out.storage_line = NA
        ELSE \A kind \in {T_SSD, T_HDD, NA} : KindRendered(disk_info, kind, out.storage_line)

\* the number written right before "x " at position i of line, else 0
CountBefore(line, i) ==
    IF i > 1 /\ i < Len(line) /\ line[i] = "x" /\ line[i + 1] = " " /\ IsDigit(line[i - 1])
    THEN DigitsValue(line,
                     CHOOSE a \in 1..(i - 1) :
                        /\ \A k \in a..(i - 1) : IsDigit(line[k])
                        /\ (a = 1 \/ ~IsDigit(line[a - 1])),
                     i - 1)
    ELSE 0

RECURSIVE RenderedCounts(_, _)
RenderedCounts(line, i) ==
    IF i > Len(line) THEN 0 ELSE CountBefore(line, i) + RenderedCounts(line, i + 1)

\* C20: for a non-empty disk list, whatever the kinds of its disks,
\* _summarize_storage returns a non-empty string other than "N/A" whose
\* rendered per-kind counts sum to the number of disks.
C20_CountsCoverEveryDisk ==
    (pc = "returned_storage" /\ disk_info # <<>>) =>
        /\ out.storage_line # <<>>
        /\ out.storage_line # NA
        /\ RenderedCounts(out.storage_line, 1) = Len(disk_info)

(***************************************************************************)
(* The text helpers called on their own: args holds the arguments, result  *)
(* what the call returned.                                                 *)
(***************************************************************************)
Idle ==
    /\ host = DefaultHost
    /\ system_info = EmptyDict /\ cpu_info = EmptyDict /\ ram_info = EmptyDict
    /\ gpu_info = <<>> /\ disk_info = <<>> /\ GPU_DEBUG = <<>> /\ calls = <<>>
    /\ out = NoOut
    /\ result = <<>>

Returns(v, next) ==
    /\ result' = v
    /\ pc' = next
    /\ UNCHANGED <<host, system_info, cpu_info, ram_info, gpu_info, disk_info,
                   GPU_DEBUG, calls, out, args>>

\* sixteenths of a GiB and their neighbours, and the counts around 0.05 GiB
ByteCounts ==
    { k * (2^26) + d : k \in (0 - 2)..MaxSixteenths, d \in {0 - 1, 0, 1} }
    \cup { 53687091, 53687092 }

InitFmt == Idle /\ pc = "call_fmt" /\ args \in ByteCounts \X ByteCounts

CallFmtGbFromBytes ==
    /\ pc = "call_fmt"
    /\ Returns(<<_fmt_gb_from_bytes(PyInt(args[1])), _fmt_gb_from_bytes(PyInt(args[2]))>>,
               "returned_fmt")

NextFmt == CallFmtGbFromBytes

SpecFmt == InitFmt /\ [][NextFmt]_vars

\* t is digits, ".", one digit, " GB"
OneDecimalGB(t) ==
    /\ Len(t) >= 6
    /\ \A k \in 1..(Len(t) - 5) : IsDigit(t[k])
    /\ t[Len(t) - 4] = "." /\ IsDigit(t[Len(t) - 3])
    /\ SubSeq(t, Len(t) - 2, Len(t)) = <<" ","G","B">>

\* the value rendered by t, in tenths
RenderedTenths(t) == DigitsValue(t, 1, Len(t) - 5) * 10 + DigitVal(t[Len(t) - 3])

\* t / 10 is n / 2^30 to one decimal: |5n - 2t * 2^28| <= 2^28, computed on
\* the quotient and the remainder of n by 2^28
NearestTenthOf(n, t, hi, lo) ==
    /\ 2 * t - 5 * hi \in (0 - 1)..6
    /\ (2 * t - 5 * hi - 1) * (2^28) <= 5 * lo
    /\ 5 * lo <= (2 * t - 5 * hi + 1) * (2^28)

FmtContract(n, t) ==
    /\ OneDecimalGB(t)
    /\ n < 0 => t = <<"0",".","0"," ","G","B">>
    /\ (0 - 53687091 <= n /\ n <= 53687091) => t = <<"0",".","0"," ","G","B">>
    /\ n >= 0 => NearestTenthOf(n, RenderedTenths(t), n \div (2^28), n % (2^28))

\* C12: _fmt_gb_from_bytes is monotonic non-decreasing over integer byte
\* counts, renders "0.0 GB" for every negative count, for every count under
\* 0.05 GiB and for 0, and otherwise renders n / 1024^3 rounded to one decimal
\* followed by " GB".
C12_FmtMonotoneClamped ==
    pc = "returned_fmt" =>
        /\ FmtContract(args[1], result[1])
        /\ FmtContract(args[2], result[2])
        /\ args[1] <= args[2] => RenderedTenths(result[1]) <= RenderedTenths(result[2])

\* a negative count next to 0.25 GiB, which is rendered "0.2 GB"
C12_Witness ==
    /\ pc = "returned_fmt"
    /\ args = <<0 - 1, 2^28>>
    /\ result = << <<"0",".","0"," ","G","B">>, <<"0",".","2"," ","G","B">> >>

(***************************************************************************)
(* _short_vendor called on its own.                                        *)
(***************************************************************************)
VendorWords ==
    { <<"M","i","c","r","o","-","S","t","a","r">>,
      <<"A","S","U","S","T","e","K">>,
      <<"a","s","u","s">>,
      <<"G","i","g","a","b","y","t","e">>,
      <<"A","S","R","o","c","k">>,
      <<"L","E","N","O","V","O">>,
      <<"H","e","w","l","e","t","t","-","P","a","c","k","a","r","d">>,
      <<"H","P">>,
      <<"D","e","l","l">>,
      <<"M","S","I">>,
      <<"M","S","-","7","C","0","2">>,
      <<"R","a","n","d","o","m","C","o">>,
      <<>> }

\* the words joined by single spaces, and the missing value
VendorTexts == { JoinWords(ws) : ws \in SeqsUpTo(VendorWords, MaxWords) } \cup { None }

InitVendor == Idle /\ pc = "call_vendor" /\ args \in VendorTexts

CallShortVendor == pc = "call_vendor" /\ Returns(_short_vendor(args), "returned_vendor")

NextVendor == CallShortVendor

SpecVendor == InitVendor /\ [][NextVendor]_vars

\* the trimmed input in upper case; the missing value counts as empty
TrimmedUpper(name) == upper(strip(IF name = None THEN <<>> ELSE name))

\* the rules in the order in which they are tried
VendorRules ==
    << [brand |-> <<"M","S","I">>, has |-> {<<"M","I","C","R","O","-","S","T","A","R">>}, starts |-> {<<"M","S","I">>, <<"M","S","-">>}],
       [brand |-> <<"A","S","U","S">>, has |-> {<<"A","S","U","S","T","E","K">>, <<"A","S","U","S">>}, starts |-> {}],
       [brand |-> <<"G","i","g","a","b","y","t","e">>, has |-> {<<"G","I","G","A","B","Y","T","E">>}, starts |-> {}],
       [brand |-> <<"A","S","R","o","c","k">>, has |-> {<<"A","S","R","O","C","K">>}, starts |-> {}],
       [brand |-> <<"L","e","n","o","v","o">>, has |-> {<<"L","E","N","O","V","O">>}, starts |-> {}],
       [brand |-> <<"H","P">>, has |-> {<<"H","E","W","L","E","T","T","-","P","A","C","K","A","R","D">>}, starts |-> {<<"H","P">>}],
       [brand |-> <<"D","e","l","l">>, has |-> {<<"D","E","L","L">>}, starts |-> {}] >>

RuleMatches(rule, u) ==
    \/ \E x \in rule.has : Contains(x, u)
    \/ \E x \in rule.starts : startswith(u, x)

MatchingRules(u) == {k \in 1..Len(VendorRules) : RuleMatches(VendorRules[k], u)}

\* C13 as stated: _short_vendor returns a non-empty string for every text
\* and for the missing value; "ASUS" for any text containing "ASUSTEK" or
\* "ASUS" in any letter case, the brand of the known substring contained; the
\* trimmed text when no brand matches; "N/A" when the trimmed text is empty.
C13_BrandOfContainedSubstring ==
    pc = "returned_vendor" =>
        /\ result # <<>>
        /\ \A k \in 1..Len(VendorRules) :
              (\E x \in VendorRules[k].has : Contains(x, TrimmedUpper(args)))
                  => result = VendorRules[k].brand
        /\ (MatchingRules(TrimmedUpper(args)) = {} /\ TrimmedUpper(args) # <<>>)
              => result = strip(args)
        /\ TrimmedUpper(args) = <<>> => result = NA

\* C13, amended: _short_vendor returns a non-empty string for every text and
\* for the missing value: the brand of the first rule, in the order MSI, ASUS,
\* Gigabyte, ASRock, Lenovo, HP, Dell, that the trimmed text matches in any
\* letter case (MSI also matches a text starting with "MSI" or "MS-", HP a
\* text starting with "HP"); the trimmed text when no rule matches; "N/A" when
\* the trimmed text is empty.
C13_BrandOfFirstRule ==
    pc = "returned_vendor" =>
        /\ result # <<>>
        /\ MatchingRules(TrimmedUpper(args)) # {}
              => result = VendorRules[Least(MatchingRules(TrimmedUpper(args)))].brand
        /\ (MatchingRules(TrimmedUpper(args)) = {} /\ TrimmedUpper(args) # <<>>)
              => result = strip(args)
        /\ TrimmedUpper(args) = <<>> => result = NA

\* a text that contains "ASUS" after "Micro-Star" is given the brand MSI
C13_Witness ==
    /\ pc = "returned_vendor"
    /\ args # None
    /\ Contains(<<"A","S","U","S">>, upper(args))
    /\ Contains(<<"M","I","C","R","O","-","S","T","A","R">>, upper(args))
    /\ result = <<"M","S","I">>

(***************************************************************************)
(* _parse_gb called on its own.                                            *)
(***************************************************************************)
GBTokens ==
    { <<"5","1","2">>, <<"1",".","5">>, <<"8">>, <<" ">>, <<".">>,
      <<"G","B">>, <<"g","b">>, NA }

RECURSIVE Concat(_)
Concat(parts) == IF parts = <<>> THEN <<>> ELSE Head(parts) \o Concat(Tail(parts))

\* every run of digits is short enough for its value to be held exactly
ExactlyHeld(s) ==
    \A i \in 1..Len(s) :
        (IsDigit(s[i]) /\ (i = 1 \/ ~IsDigit(s[i - 1]))) =>
            DigitRunEnd(s, i) - i + 1 <= (IF i > 1 /\ s[i - 1] = "." THEN FracDigits ELSE MaxDigits)

GBTexts ==
    { t \in { Concat(ts) : ts \in SeqsUpTo(GBTokens, MaxTokens) } : ExactlyHeld(t) }
        \cup { None }

InitParse == Idle /\ pc = "call_parse" /\ args \in GBTexts

CallParseGb == pc = "call_parse" /\ Returns(_parse_gb(args), "returned_parse")

NextParse == CallParseGb

SpecParse == InitParse /\ [][NextParse]_vars

AllDigits(s, i, j) == i <= j /\ \A k \in i..j : IsDigit(s[k])

\* s[i..j] is a decimal number: digits, or digits "." digits
DecimalAt(s, i, j) ==
    \/ AllDigits(s, i, j)
    \/ \E d \in (i + 1)..(j - 1) :
          s[d] = "." /\ AllDigits(s, i, d - 1) /\ AllDigits(s, d + 1, j)

\* "GB" in any letter case follows position j after optional white space
GBFollows(s, j) ==
    \E g \in (j + 1)..(Len(s) - 1) :
        /\ \A k \in (j + 1)..(g - 1) : s[k] = " "
        /\ s[g] \in {"G", "g"} /\ s[g + 1] \in {"B", "b"}

NumbersBeforeGB(s) ==
    { p \in (1..Len(s)) \X (1..Len(s)) : DecimalAt(s, p[1], p[2]) /\ GBFollows(s, p[2]) }

\* the value of the decimal number s[i..j], in units of 1 / GBScale
DecimalValue(s, i, j) ==
    IF AllDigits(s, i, j) THEN DigitsValue(s, i, j) * GBScale
    ELSE LET d == CHOOSE d \in i..j : s[d] = "."
         IN  DigitsValue(s, i, d - 1) * GBScale
             + DigitsValue(s, d + 1, j) * Pow10(FracDigits - (j - d))

\* C14: _parse_gb returns the value of the first decimal number that
\* immediately precedes "GB" (any letter case, optional white space between
\* them), and 0 when the text is missing, empty or has no such number.
C14_FirstNumberBeforeGB ==
    pc = "returned_parse" =>
        IF args = None \/ NumbersBeforeGB(args) = {} THEN result = 0
        ELSE \E p \in NumbersBeforeGB(args) :
                /\ \A q \in NumbersBeforeGB(args) : p[1] <= q[1]
                /\ result = DecimalValue(args, p[1], p[2])

\* "8 1.5GB": the first number is not followed by GB, the second gives 1.5
C14_Witness ==
    /\ pc = "returned_parse"
    /\ args = <<"8"," ","1",".","5","G","B">>
    /\ 2 * result = 3 * GBScale

\* the registry strategy read a manufacturer or a product
RegistrySucceeded(reg) ==
    /\ reg.open /\ reg.manu # Missing /\ reg.product # Missing
    /\ strip(OrEmpty(reg.manu)) # <<>> \/ strip(OrEmpty(reg.product)) # <<>>

\* the baseboard query read a manufacturer or a product
BaseBoardSucceeded(bb) ==
    /\ bb.ok /\ bb.Manufacturer # Missing /\ bb.Product # Missing
    /\ strip(OrEmpty(bb.Manufacturer)) # <<>> \/ strip(OrEmpty(bb.Product)) # <<>>

\* the product with placeholders rejected in favour of alt, chipset code stripped
CleanedProduct(product, alt) ==
    StripChipset(IF product # <<>> /\ upper(product) \notin bad_tokens THEN product ELSE alt)

BoardNameOf(manu, product, alt) ==
    JoinStrip(_short_vendor(strip(OrEmpty(manu))), CleanedProduct(strip(OrEmpty(product)), alt))

\* C15: on Windows the board name is the short vendor followed by the cleaned
\* product of the strategy that succeeded; the baseboard query is used only
\* when the registry strategy read nothing, and the name is "N/A" when both
\* strategies fail.
C15_NameFromSucceedingStrategy ==
    (pc = "returned" /\ host.os = "Windows") =>
        system_info["Motherboard"] =
            IF RegistrySucceeded(host.reg)
            THEN BoardNameOf(host.reg.manu, host.reg.product, OrEmpty(TryStrip(host.reg.sysprod)))
            ELSE IF BaseBoardSucceeded(host.bb)
            THEN BoardNameOf(host.bb.Manufacturer, host.bb.Product, <<>>)
            ELSE NA

\* the same for the runs in which the registry strategy succeeded
C15_RegistryNameCleaned ==
    (pc = "returned" /\ host.os = "Windows" /\ RegistrySucceeded(host.reg)) =>
        system_info["Motherboard"] =
            BoardNameOf(host.reg.manu, host.reg.product, OrEmpty(TryStrip(host.reg.sysprod)))

\* ... and for those in which both strategies failed
C15_BothFailedGivesNA ==
    (pc = "returned" /\ host.os = "Windows"
        /\ ~RegistrySucceeded(host.reg) /\ ~BaseBoardSucceeded(host.bb)) =>
        system_info["Motherboard"] = NA

(***************************************************************************)
(* get_disk_info on hosts whose first tier lists disks of every kind of    *)
(* media type and spin speed.                                              *)
(***************************************************************************)
MediaTypes == { PyInt(0), PyInt(3), PyInt(4), PyInt(5), PyNone, PyAbsent }

SpindleSpeeds == { PyInt(0), PyInt(7200), PyNone, PyAbsent }

KindDisks ==
    { [GoodMsftDisk EXCEPT !.MediaType = mt, !.SpindleSpeed = sp] :
        mt \in MediaTypes, sp \in SpindleSpeeds }

KindHosts ==
    { [DefaultHost EXCEPT !.msft = [ok |-> TRUE, disks |-> x]] :
        x \in SeqsUpTo(KindDisks, MaxItems) }

InitKind == host \in KindHosts /\ pc = "call" /\ Unset

SpecKind == InitKind /\ [][NextDisk]_vars

\* the attribute was read as an integer
Readable(x) == x.k = "int"

BySpinSpeed(sp) ==
    IF ~Readable(sp) THEN NA
    ELSE IF sp.v > 0 THEN T_HDD ELSE IF sp.v = 0 THEN T_SSD ELSE NA

KindOf(pd) ==
    IF Readable(pd.MediaType) /\ pd.MediaType.v = 3 THEN T_HDD
    ELSE IF Readable(pd.MediaType) /\ pd.MediaType.v \in {4, 5} THEN T_SSD
    ELSE BySpinSpeed(pd.SpindleSpeed)

FirstTierListed ==
    /\ pc = "returned" /\ host.os = "Windows" /\ host.msft.ok
    /\ host.msft.disks # <<>> /\ \A i \in 1..Len(host.msft.disks) : ~host.msft.disks[i].raises

\* C16: in the first Windows tier media type 3 gives HDD and 4 or 5 give SSD;
\* the spin speed decides (0 SSD, above 0 HDD) only when the media type is
\* unavailable or none of 3, 4, 5; a disk with neither value readable keeps
\* the kind "N/A".
C16_KindByMediaThenSpin ==
    FirstTierListed =>
        /\ Len(disk_info) = Len(host.msft.disks)
        /\ \A i \in 1..Len(disk_info) : disk_info[i].Type = KindOf(host.msft.disks[i])

\* the same for the disks whose spin speed attribute exists
C16_KindWhenSpinPresent ==
    FirstTierListed =>
        \A i \in 1..Len(disk_info) :
            host.msft.disks[i].SpindleSpeed # PyAbsent =>
                disk_info[i].Type = KindOf(host.msft.disks[i])

(***************************************************************************)
(* get_ram_info on Linux hosts whose dmidecode output is a first "Memory   *)
(* Device" marker followed by a few lines.                                 *)
(***************************************************************************)
L_Marker == <<"M","e","m","o","r","y"," ","D","e","v","i","c","e">>
L_Size8 == <<" ","S","i","z","e",":"," ","8"," ","G","B">>
L_Size16 == <<" ","S","i","z","e",":"," ","1","6"," ","G","B">>
L_Speed == <<" ","S","p","e","e","d",":"," ","3","2","0","0"," ","M","T","/","s">>
L_Manufacturer == <<" ","M","a","n","u","f","a","c","t","u","r","e","r",":"," ","K","i","n","g","s","t","o","n">>

DmiLines == { L_Marker, L_Size8, L_Size16, L_Speed, L_Manufacturer, <<>> }

DmiHosts ==
    { [DefaultHost EXCEPT !.os = "Linux",
                          !.dmidecode = [ok |-> TRUE, lines |-> <<L_Marker>> \o x]] :
        x \in SeqsUpTo(DmiLines, MaxLines) }

InitDmi == host \in DmiHosts /\ pc = "call" /\ Unset

CallGetRamInfo == pc = "call" /\ RamReturns(get_ram_info(host), "returned")

NextDmi == CallGetRamInfo

SpecDmi == InitDmi /\ [][NextDmi]_vars

IsMarker(line) == Contains(L_Marker, line)

\* the key of the field a line carries, "" when it carries none
FieldKey(line) ==
    IF Contains(<<"S","i","z","e",":">>, line) THEN "Capacity"
    ELSE IF Contains(<<"S","p","e","e","d",":">>, line) THEN "Speed"
    ELSE IF Contains(<<"P","a","r","t"," ","N","u","m","b","e","r",":">>, line) THEN "Part Number"
    ELSE IF Contains(<<"M","a","n","u","f","a","c","t","u","r","e","r",":">>, line) THEN "Manufacturer"
    ELSE ""

\* the lines between the marker at m and the next marker
SectionLines(lines, m) ==
    { i \in (m + 1)..Len(lines) : \A j \in (m + 1)..i : ~IsMarker(lines[j]) }

\* the markers whose section holds a recognised field
FilledSections(lines) ==
    { m \in 1..Len(lines) :
        IsMarker(lines[m]) /\ \E i \in SectionLines(lines, m) : FieldKey(lines[i]) # "" }

\* the value of the field in the section at m, "N/A" when it has none
SectionField(lines, m, key) ==
    LET at == { i \in SectionLines(lines, m) : FieldKey(lines[i]) = key }
    IN  IF at = {} THEN NA ELSE FieldOf(lines[CHOOSE i \in at : \A j \in at : j <= i])

ModuleOfSection(lines, m, n) ==
    [Module |-> n,
     Manufacturer |-> SectionField(lines, m, "Manufacturer"),
     Capacity |-> SectionField(lines, m, "Capacity"),
     Speed |-> SectionField(lines, m, "Speed")]
    @@ "Part Number" :> SectionField(lines, m, "Part Number")

OneModulePerSection(lines, modules) ==
    /\ Len(modules) = Cardinality(FilledSections(lines))
    /\ \A m \in FilledSections(lines) :
          LET n == Cardinality({ x \in FilledSections(lines) : x <= m })
          IN  modules[n] = ModuleOfSection(lines, m, n)

\* C17: on Linux get_ram_info returns exactly one module for every "Memory
\* Device" section holding a recognised field, the last section included, in
\* section order, numbered from 1, each with the fields of its own section.
C17_OneModulePerSection ==
    (pc = "returned" /\ host.os = "Linux" /\ host.dmidecode.ok) =>
        OneModulePerSection(host.dmidecode.lines, ram_info["Modules"])

\* the lines before the last marker
BeforeLastSection(lines) ==
    LET marks == { i \in 1..Len(lines) : IsMarker(lines[i]) }
    IN  SubSeq(lines, 1, (CHOOSE i \in marks : \A j \in marks : j <= i) - 1)

\* the same with the last section left out: every section closed by a later
\* marker gives its module
C17_ClosedSectionsGiveModules ==
    (pc = "returned" /\ host.os = "Linux" /\ host.dmidecode.ok) =>
        OneModulePerSection(BeforeLastSection(host.dmidecode.lines), ram_info["Modules"])

(***************************************************************************)
(* get_gpu_info invoked several times in one process; the environment and  *)
(* the providers may change between two invocations.  result keeps, for    *)
(* every invocation, the host it ran on, the list it returned and the      *)
(* lines it appended.                                                      *)
(***************************************************************************)
RepeatHosts ==
    { [DefaultHost EXCEPT !.env.XPEC_DEBUG_GPU = g, !.env.XPEC_DEBUG = a,
                          !.gpu_wmi = w, !.nvml = n] :
        g \in {None, <<"1">>, <<"0">>},
        a \in {None, <<"Y","e","s">>},
        w \in { [ok |-> TRUE, ctrls |-> <<GoodController>>], [ok |-> FALSE, ctrls |-> <<>>] },
        n \in { [ok |-> FALSE, devs |-> <<>>], [ok |-> TRUE, devs |-> <<GoodNvmlDev>>] } }

InitRepeat == host \in RepeatHosts /\ pc = "call" /\ Unset

\* a variant of Rebound that keeps the lines of the earlier invocations
Rebound_Kept(old) == old

\* line 249: GPU_DEBUG = [] before anything is appended
Rebound(old) == <<>>

Invoked(r) ==
    /\ gpu_info' = r.ret
    /\ GPU_DEBUG' = Rebound(GPU_DEBUG) \o r.debug
    /\ result' = Append(result, [host |-> host, ret |-> r.ret, lines |-> r.debug])
    /\ pc' = "returned"
    /\ UNCHANGED <<host, system_info, cpu_info, ram_info, disk_info, calls, out, args>>

InvokeGetGpuInfo == pc = "call" /\ Len(result) < MaxCalls /\ Invoked(get_gpu_info(host))

\* the environment and the providers change before the next invocation
ChangeHost ==
    /\ pc = "returned" /\ Len(result) < MaxCalls
    /\ host' \in RepeatHosts
    /\ pc' = "call"
    /\ UNCHANGED <<system_info, cpu_info, ram_info, gpu_info, disk_info, GPU_DEBUG, calls, out, args, result>>

NextRepeat == InvokeGetGpuInfo \/ ChangeHost

SpecRepeat == InitRepeat /\ [][NextRepeat]_vars

\* C18: after any sequence of invocations GPU_DEBUG holds the lines of the
\* most recent invocation only, is empty when GPU debugging was disabled in
\* it, and the list returned does not depend on the earlier invocations: any
\* earlier invocation on the same host returned the same list.
C18_DebugOfLatestInvocationOnly ==
    (pc = "returned" /\ result # <<>>) =>
        /\ GPU_DEBUG = result[Len(result)].lines
        /\ ~_is_debug_gpu(host) => GPU_DEBUG = <<>>
        /\ \A i \in 1..Len(result) : result[i].host = host => result[i].ret = gpu_info

\* a second invocation with debugging enabled after a first one that left lines
C18_Witness ==
    /\ pc = "returned" /\ Len(result) = 2
    /\ result[1].lines # <<>> /\ result[1].host # host
    /\ _is_debug_gpu(host)
    /\ GPU_DEBUG # <<>> /\ GPU_DEBUG # result[1].lines

\* a second invocation with debugging disabled after a first one that left lines
C18_ClearedWitness ==
    /\ pc = "returned" /\ Len(result) = 2
    /\ result[1].lines # <<>>
    /\ ~_is_debug_gpu(host) /\ GPU_DEBUG = <<>>

(***************************************************************************)
(* get_system_info and get_gpu_info on hosts that differ in the debug      *)
(* flags of the environment.                                               *)
(***************************************************************************)
FlagHosts ==
    { [DefaultHost EXCEPT !.os = o, !.reg = r, !.bb = b, !.gpu_wmi = w, !.nvml = n,
                          !.env = [XPEC_DEBUG_MOBO |-> m, XPEC_DEBUG_GPU |-> g, XPEC_DEBUG |-> a]] :
        o \in {"Windows", "Linux"},
        r \in {GoodReg, ClosedReg, [GoodReg EXCEPT !.product = X_ToBeFilled]},
        b \in {GoodBaseBoard, [GoodBaseBoard EXCEPT !.ok = FALSE]},
        w \in { [ok |-> TRUE, ctrls |-> <<GoodController>>], [ok |-> FALSE, ctrls |-> <<>>] },
        n \in { [ok |-> FALSE, devs |-> <<>>], [ok |-> TRUE, devs |-> <<GoodNvmlDev>>] },
        m \in {None, <<"1">>, <<"o","f","f">>},
        g \in {None, <<"T","R","U","E">>, <<"0">>},
        a \in {None, <<"o","n">>, <<>>} }

InitFlags == host \in FlagHosts /\ pc = "call" /\ Unset

NextFlags == CallGetSystemInfo \/ CallGetGpuInfo

SpecFlags == InitFlags /\ [][NextFlags]_vars

\* the host with no debug flag set
Flagless(h) ==
    [h EXCEPT !.env = [XPEC_DEBUG_MOBO |-> None, XPEC_DEBUG_GPU |-> None, XPEC_DEBUG |-> None]]

DebugEntries ==
    { "Debug: Source", "Debug: Reg BaseBoardManufacturer", "Debug: Reg BaseBoardProduct",
      "Debug: Reg SystemManufacturer", "Debug: Reg SystemProductName",
      "Debug: Reg Product Pretty", "Debug: Vendor Short",
      "Debug: WMI BaseBoard.Manufacturer", "Debug: WMI BaseBoard.Product",
      "Debug: WMI BaseBoard.Version",
      "Debug: Linux board_vendor", "Debug: Linux board_name" }

\* info is plain with nothing but debug entries added, and none when off
OnlyDebugAdded(info, plain, on) ==
    /\ DOMAIN plain \subseteq DOMAIN info
    /\ \A k \in DOMAIN plain : info[k] = plain[k]
    /\ (DOMAIN info \ DOMAIN plain) \subseteq DebugEntries
    /\ ~on => info = plain

SystemReturned == pc = "returned" /\ system_info # EmptyDict

GpuReturned == pc = "returned" /\ system_info = EmptyDict

\* C19: the debug flags do not change what is detected: the Motherboard and OS
\* values and the GPU list are those of the same host with no flag set; a flag
\* only adds "Debug:" entries and GPU_DEBUG lines, and none when it is off.
C19_FlagsOnlyAddDebug ==
    /\ SystemReturned =>
          OnlyDebugAdded(system_info, get_system_info(Flagless(host)).ret, _is_debug(host))
    /\ GpuReturned =>
          /\ gpu_info = get_gpu_info(Flagless(host)).ret
          /\ ~_is_debug_gpu(host) => GPU_DEBUG = <<>>

\* the board flag is on, the GPU flag is off: debug entries next to a detected name
C19_Witness ==
    /\ SystemReturned /\ _is_debug(host) /\ ~_is_debug_gpu(host)
    /\ "Debug: Source" \in DOMAIN system_info
    /\ system_info["Motherboard"] # NA
    /\ system_info["Motherboard"] # system_info["Debug: Reg Product Pretty"]

\* the GPU flag is on, the board flag is off: lines next to a detected list
C19_GpuWitness ==
    /\ GpuReturned /\ _is_debug_gpu(host) /\ ~_is_debug(host)
    /\ GPU_DEBUG # <<>> /\ gpu_info # <<>>

====
